---- MODULE Spec2Model ----
(***************************************************************************)
(* A model of the ReWOO agent workflow of AgentIQ:                         *)
(*   src/src/aiq/agent/rewoo_agent/register.py  (workflow construction and *)
(*   the caller-facing entry point _response_fn)                           *)
(*   src/src/aiq/agent/rewoo_agent/prompt.py    (prompt templates)         *)
(* The agent graph itself (ReWOOAgentGraph, ReWOOGraphState in agent.py)   *)
(* is not among the source files; its phases are modelled from spec.md     *)
(* sections 3, 4 and 7, behind the interface register.py uses.             *)
(***************************************************************************)
EXTENDS Integers, Sequences, FiniteSets, TLC

(***************************************************************************)
(* Bounds of the model.                                                    *)
(***************************************************************************)
\* largest max_iterations a configuration is given
MaxIter == 2
\* largest max_retries a configuration is given
MaxRetries == 1
\* most plan lines in one planner output
MaxPlanLen == 3
\* concurrent invocations of the entry point in ConcSpec
NumRuns == 2
\* max_iterations of the configuration ConcSpec starts from
ConcIter == 2

\* most pieces a tool input given to the Substitution Engine is made of
MaxPieces == 3

\* most lines of a planner text given to the Plan Parser
MaxLines == 3

\* most advances of the clock in the life of a job store
MaxTicks == 1
\* the repetitions of a dataset an evaluation is run with, at most
MaxReps == 2

Runs == 1 .. NumRuns

(***************************************************************************)
(* Values.                                                                 *)
(***************************************************************************)
None == "None"
NoTask == "NoTask"
TaskOf(r) == "task" \o ToString(r)
EvId(i) == "#E" \o ToString(i)

\* the result field of a fresh GraphState: absent
Absent == << >>

\* the message of register.py line 132
GenericMessage == << "I seem to be having a problem." >>

\* the placeholders of SYSTEM_PROMPT (prompt.py lines 27 and 29)
RequiredPlaceholders == {"tools", "tool_names"}

\* a system prompt is modelled by the set of placeholders it contains;
\* config.system_prompt = None is the prompt with custom = FALSE
NoPrompt == [custom |-> FALSE, placeholders |-> {}]
CustomPrompts == [custom : {TRUE}, placeholders : SUBSET RequiredPlaceholders]

\* the system message of rewoo_agent_prompt: SYSTEM_PROMPT (prompt.py lines
\* 20-48), which holds both placeholders
SYSTEM_PROMPT == [custom |-> FALSE, placeholders |-> RequiredPlaceholders]

\* config.additional_instructions: None, or a text
NoInstructions == ""
Instructions == {NoInstructions, "Answer in French."}

\* the tools the configuration names (config.tool_names)
ConfiguredToolNames == {"calc", "boom"}

Configs ==
    [ system_prompt : {NoPrompt} \cup CustomPrompts,
      additional_instructions : Instructions,
      tool_names : {ConfiguredToolNames},
      verbose : BOOLEAN,
      retry_parsing_errors : BOOLEAN,
      max_retries : 0 .. MaxRetries,
      max_iterations : 1 .. MaxIter ]

(***************************************************************************)
(* Planner output: a text of lines, prose or plan lines.                   *)
(***************************************************************************)
ProseLine ==
    [ kind |-> "prose", description |-> "Here is my plan", evidence_id |-> "",
      tool_name |-> "", tool_input |-> << >> ]

\* the i-th plan line of a planner text, of one of five shapes: a literal
\* input, a reference to the step before (to the step itself when first), a
\* reference to the step after, a tool that is not configured, a tool that
\* raises
PlanLine(shape, i) ==
    [ kind |-> "plan",
      description |-> "step",
      evidence_id |-> EvId(i),
      tool_name |-> CASE shape = "unknown" -> "nonexistent_tool"
                      [] shape = "boom" -> "boom"
                      [] OTHER -> "calc",
      tool_input |-> CASE shape = "calc_ref" ->
                            << "x", EvId(IF i = 1 THEN 1 ELSE i - 1) >>
                       [] shape = "calc_fwd" -> << EvId(i + 1), "x" >>
                       [] OTHER -> << "x" >> ]

Shapes == {"calc_lit", "calc_ref", "calc_fwd", "unknown", "boom"}

PlanTexts(maxLen) ==
    UNION { { << ProseLine >> \o [ i \in 1 .. n |-> PlanLine(f[i], i) ] :
              f \in [1 .. n -> Shapes] } : n \in 1 .. maxLen }

\* a planner output with no plan line
UnparseableText == << ProseLine, ProseLine >>

AllPlannerTexts == {UnparseableText} \cup PlanTexts(MaxPlanLen)

(***************************************************************************)
(* State.                                                                  *)
(***************************************************************************)
VARIABLES
    config,        \* the ReWOOAgentWorkflowConfig the workflow is built from
    buildPc,       \* position of ReWOO_agent_workflow in BuildOrder; 0: raised
    buildError,    \* the message of the error construction raised, or None
    llm,           \* the model client obtained from the builder, or None
    tools,         \* the tool set obtained from the builder
    graph,         \* the compiled graph: the arguments it was built with
    pc,            \* per invocation: position of _response_fn
    input,         \* per invocation: the task of the trimmed history, or NoTask
    stateRef,      \* per invocation: the GraphState object it runs on (0: none)
    heap,          \* the GraphState objects
    phase,         \* per invocation: the orchestrator's phase
    graphSteps,    \* per invocation: orchestration steps the graph has used
    stepIdx,       \* per invocation: the Worker Phase's position in steps
    plannerCalls,  \* per invocation: planner outputs requested from the model
    solverCalls,   \* per invocation: solver outputs requested from the model
    calls,         \* per invocation: the tool calls dispatched, in order
    raised,        \* per invocation: the exception that left the try body
    response,      \* per invocation: the text of the response returned
    lastText,      \* per invocation: the planner output it received last
    inflight,      \* per invocation: the tool calls started and not yet returned
    sub,           \* the Substitution Engine applied to one input and mapping
    prs,           \* the Plan Parser applied to one planner text
    jobs,          \* JobStore._jobs: job id -> JobInfo
    clock,         \* datetime.now(UTC), in seconds
    lastCall,      \* the JobStore method called last and how it ended
    ds             \* a DatasetHandler, its dataset and what was made of it

vars ==
    << config, buildPc, buildError, llm, tools, graph, pc, input, stateRef,
       heap, phase, graphSteps, stepIdx, plannerCalls, solverCalls, calls,
       raised, response, lastText, inflight, sub, prs, jobs, clock, lastCall,
       ds >>

buildVars == << buildPc, buildError, llm, tools, graph >>

runVars ==
    << pc, input, stateRef, heap, phase, graphSteps, stepIdx, plannerCalls,
       solverCalls, calls, raised, response, lastText, inflight >>

\* the state of the components exercised on their own and of the job store
jobVars == << jobs, clock, lastCall >>
asideVars == << sub, prs, jobVars, ds >>

(***************************************************************************)
(* Workflow construction: ReWOO_agent_workflow, register.py lines 62-102.  *)
(***************************************************************************)
\* (variant: the model client obtained before the prompt is validated)
BuildOrderLlmFirst == << "get_llm", "prompt", "get_tools", "build_graph" >>
\* the statements of construction in the order the function runs them
BuildOrder == << "prompt", "get_llm", "get_tools", "build_graph" >>

BuildRaised == 0
BuildReady == Len(BuildOrder) + 1

\* a ChatPromptTemplate: its system message (a base text and what was appended
\* to it), and whether it has the agent_scratchpad placeholder
ChatPromptTemplate(base, appended, scratchpad) ==
    [ system |-> [ base |-> base, appended |-> appended ],
      user |-> "USER_PROMPT", scratchpad |-> scratchpad ]

\* rewoo_agent_prompt (prompt.py line 68)
rewoo_agent_prompt == ChatPromptTemplate(SYSTEM_PROMPT, << >>, FALSE)

\* no graph has been built yet
NoGraph ==
    [ built |-> FALSE, llm |-> None, prompt |-> rewoo_agent_prompt,
      tools |-> {}, detailed_logs |-> FALSE,
      retry_parsing_errors |-> FALSE, max_retries |-> 0 ]

\* `if config.system_prompt:` (line 76)
HasCustomPrompt(cfg) == cfg.system_prompt.custom

\* ReWOOAgentGraph.validate_system_prompt: the required placeholders are there
validate_system_prompt(prompt) == RequiredPlaceholders \subseteq prompt.placeholders

\* _prompt_str of lines 77-79: the custom prompt with the additional
\* instructions appended
PromptStr(cfg) ==
    [ base |-> cfg.system_prompt,
      appended |-> IF cfg.additional_instructions # NoInstructions
                   THEN << cfg.additional_instructions >> ELSE << >> ]

\* the prompt the graph is constructed with (lines 76-87): line 84 makes it
\* from config.system_prompt, not from _prompt_str; line 87 is the default
PlannerPrompt(cfg) ==
    IF HasCustomPrompt(cfg)
    THEN ChatPromptTemplate(cfg.system_prompt, << >>, TRUE)
    ELSE rewoo_agent_prompt

\* (variant: a tool set that also holds a tool the configuration does not name)
get_tools_all(cfg) == cfg.tool_names \cup {"nonexistent_tool"}
\* builder.get_tools(tool_names=config.tool_names, ...) (line 93)
get_tools(cfg) == cfg.tool_names

\* (variant: retries always on, one retry more than configured)
GraphArgsOneMoreRetry(cfg, l, t) ==
    [ built |-> TRUE, llm |-> l, prompt |-> PlannerPrompt(cfg), tools |-> t,
      detailed_logs |-> cfg.verbose,
      retry_parsing_errors |-> TRUE,
      max_retries |-> cfg.max_retries + 1 ]
\* the arguments ReWOOAgentGraph is constructed with (lines 96-102)
GraphArgs(cfg, l, t) ==
    [ built |-> TRUE, llm |-> l, prompt |-> PlannerPrompt(cfg), tools |-> t,
      detailed_logs |-> cfg.verbose,
      retry_parsing_errors |-> cfg.retry_parsing_errors,
      max_retries |-> cfg.max_retries ]

\* one statement of ReWOO_agent_workflow
Build ==
    /\ buildPc \in 1 .. Len(BuildOrder)
    /\ LET stage == BuildOrder[buildPc]
           invalid == /\ stage = "prompt"
                      /\ HasCustomPrompt(config)
                      /\ ~ validate_system_prompt(config.system_prompt)
       IN  /\ buildPc' = IF invalid THEN BuildRaised ELSE buildPc + 1
           /\ buildError' = IF invalid THEN "Invalid system_prompt" ELSE buildError
           /\ llm' = IF stage = "get_llm" THEN "llm_client" ELSE llm
           /\ tools' = IF stage = "get_tools" THEN get_tools(config) ELSE tools
           /\ graph' = IF stage = "build_graph"
                       THEN GraphArgs(config, llm, tools)
                       ELSE graph
    /\ UNCHANGED << config, asideVars, runVars >>

(***************************************************************************)
(* GraphState and the components of the agent graph (agent.py; modelled    *)
(* from spec.md sections 3 and 4).                                         *)
(***************************************************************************)
EmptyEvidence == [ x \in {} |-> "" ]

\* (variant: a GraphState that starts with a result)
NewGraphStateWithResult(task) ==
    [ task |-> task, plan_string |-> << >>, steps |-> << >>,
      evidence |-> EmptyEvidence, result |-> << "Answer", task >>,
      retry_count |-> 0 ]
\* state = ReWOOGraphState(task=task) (register.py line 114)
NewGraphState(task) ==
    [ task |-> task, plan_string |-> << >>, steps |-> << >>,
      evidence |-> EmptyEvidence, result |-> Absent, retry_count |-> 0 ]

\* (variant: one GraphState object shared by all invocations)
AllocShared(r) == 1
\* the object the constructor call of line 114 yields: a new one per invocation
AllocState(r) == r

\* (variants: a limit one step short, a limit one tool call wide)
recursion_limit_odd(cfg) == (cfg.max_iterations + 1) * 2 - 1
recursion_limit_wide(cfg) == (cfg.max_iterations + 2) * 2
\* graph.ainvoke(state, config={'recursion_limit': ...}) (line 117)
recursion_limit(cfg) == (cfg.max_iterations + 1) * 2

\* (variant: every node of the graph counted as one step)
NodeCostFlat(ph) == 1
\* orchestration steps a phase's node uses: lines 118-120 give one tool call
\* as one cycle of two steps beside the planner's and the solver's one each
NodeCost(ph) == IF ph = "WORKING" THEN 2 ELSE 1

\* Plan Parser (spec.md 4.1): the plan lines of the text, in textual order
ParsePlan(text) ==
    LET lines == SelectSeq(text, LAMBDA l : l.kind = "plan")
    IN  [ i \in 1 .. Len(lines) |->
            [ description |-> lines[i].description,
              evidence_id |-> lines[i].evidence_id,
              tool_name |-> lines[i].tool_name,
              tool_input |-> lines[i].tool_input ] ]

\* the tokens that are evidence identifiers
EvidenceTokens == { EvId(i) : i \in 1 .. MaxPlanLen + 1 }

\* Substitution Engine (spec.md 4.2): an identifier of the input that is no
\* key of the mapping is an error
\* (variant: an engine that leaves unknown identifiers in place)
SubstitutionNeverFails(tool_input, evidence) == FALSE
SubstitutionFails(tool_input, evidence) ==
    \E i \in 1 .. Len(tool_input) :
        tool_input[i] \in EvidenceTokens /\ tool_input[i] \notin DOMAIN evidence

\* the input with every known identifier replaced by its value
Substitute(tool_input, evidence) ==
    [ i \in 1 .. Len(tool_input) |->
        IF tool_input[i] \in DOMAIN evidence
        THEN evidence[tool_input[i]]
        ELSE tool_input[i] ]

\* the tools' own behaviour: boom raises, any other tool answers
ToolRaises(name) == name = "boom"
ToolOutput(name, tool_input) == "12"

UnknownToolError(name) == "Error: tool not found: " \o name
ToolRaisedError(name) == "Error: tool failed: " \o name

\* Tool Dispatcher (spec.md 4.3): errors become evidence
Dispatch(toolset, name, tool_input) ==
    IF name \notin toolset THEN UnknownToolError(name)
    ELSE IF ToolRaises(name) THEN ToolRaisedError(name)
    ELSE ToolOutput(name, tool_input)

\* (variant: a mapping that holds the entry written last only)
PutEvidenceAlone(evidence, id, value) == [ x \in {id} |-> value ]
\* the evidence mapping with one entry written
PutEvidence(evidence, id, value) ==
    [ x \in DOMAIN evidence \cup {id} |-> IF x = id THEN value ELSE evidence[x] ]

\* Planner Phase retry policy (spec.md 4.4)
MayRetry(g, st) == g.retry_parsing_errors /\ st.retry_count < g.max_retries

NextRetryCount(c) == c + 1

\* Solver Phase (spec.md 4.6): the answer to the task from the evidence
Solve(st) ==
    << "Answer", st.task >> \o
    [ i \in 1 .. Len(st.steps) |->
        IF st.steps[i].evidence_id \in DOMAIN st.evidence
        THEN st.evidence[st.steps[i].evidence_id]
        ELSE "no evidence" ]

\* the positions of _response_fn inside its try block (lines 105-125), and
\* where an exception raised at a position leaves the invocation
TryBody == {"trim", "graph", "read"}
AfterRaise(at) == IF at \in TryBody THEN "except" ELSE "escaped"

\* (variants: verbose ignored, one way and the other)
ExceptionResponseGeneric(cfg, ex) == GenericMessage
ExceptionResponseRaw(cfg, ex) == << ex >>
\* the response text _response_fn returns for an exception (lines 127-132)
ExceptionResponse(cfg, ex) == IF cfg.verbose THEN << ex >> ELSE GenericMessage

\* the GraphState invocation r runs on
St(r) == heap[stateRef[r]]

(***************************************************************************)
(* The caller-facing entry point _response_fn (register.py lines 104-132)  *)
(* and the run of the graph it awaits.                                     *)
(***************************************************************************)
\* a caller invokes the function the workflow yielded (lines 134-145)
Invoke(r, tasks) ==
    /\ buildPc = BuildReady
    /\ pc[r] = "idle"
    /\ \E t \in tasks :
          input' = [input EXCEPT ![r] = t]
    /\ pc' = [pc EXCEPT ![r] = "trim"]
    /\ UNCHANGED << config, asideVars, buildVars, inflight, stateRef, heap, phase, graphSteps,
                    stepIdx, plannerCalls, solverCalls, calls, raised, response,
                    lastText >>

\* lines 107-114: trim the history, take the task, make the GraphState
Trim(r) ==
    /\ pc[r] = "trim"
    /\ IF input[r] = NoTask
       THEN /\ raised' = [raised EXCEPT ![r] = "IndexError: list index out of range"]
            /\ pc' = [pc EXCEPT ![r] = AfterRaise("trim")]
            /\ UNCHANGED << stateRef, heap, phase >>
       ELSE /\ stateRef' = [stateRef EXCEPT ![r] = AllocState(r)]
            /\ heap' = [heap EXCEPT ![AllocState(r)] = NewGraphState(input[r])]
            /\ phase' = [phase EXCEPT ![r] = "PLANNING"]
            /\ pc' = [pc EXCEPT ![r] = "graph"]
            /\ UNCHANGED raised
    /\ UNCHANGED << config, asideVars, buildVars, inflight, input, graphSteps, stepIdx,
                    plannerCalls, solverCalls, calls, response, lastText >>

\* the graph may run the node of invocation r's phase within the limit
WithinLimit(r) ==
    graphSteps[r] + NodeCost(phase[r]) <= recursion_limit(config)

\* Planner Phase: one planner output requested and parsed
PlannerCall(r, texts) ==
    /\ pc[r] = "graph"
    /\ phase[r] = "PLANNING"
    /\ WithinLimit(r)
    /\ \E text \in texts :
          LET steps == ParsePlan(text)
              st == St(r)
              parsed == steps # << >>
              retry == ~ parsed /\ MayRetry(graph, st)
          IN  /\ plannerCalls' = [plannerCalls EXCEPT ![r] = @ + 1]
              /\ lastText' = [lastText EXCEPT ![r] = text]
              /\ heap' = [heap EXCEPT ![stateRef[r]] =
                            IF parsed
                            THEN [st EXCEPT !.plan_string = text, !.steps = steps]
                            ELSE IF retry
                            THEN [st EXCEPT !.retry_count = NextRetryCount(@)]
                            ELSE st]
              /\ phase' = [phase EXCEPT ![r] =
                              IF parsed THEN "WORKING"
                              ELSE IF retry THEN "PLANNING" ELSE "FAILED"]
              /\ graphSteps' = [graphSteps EXCEPT ![r] =
                                  IF parsed THEN @ + NodeCost("PLANNING") ELSE @]
              /\ stepIdx' = [stepIdx EXCEPT ![r] = IF parsed THEN 1 ELSE @]
              /\ raised' = [raised EXCEPT ![r] =
                              IF parsed \/ retry THEN @ ELSE "PlanParseError"]
              /\ pc' = [pc EXCEPT ![r] =
                          IF parsed \/ retry THEN @ ELSE AfterRaise("graph")]
    /\ UNCHANGED << config, asideVars, buildVars, inflight, input, stateRef, solverCalls, calls,
                    response >>

\* Worker Phase (spec.md 4.5, 5): the worker awaits the tool call of one step
\* before it goes on; NextToDispatch is the step it may dispatch now, 0 while
\* a tool call is in flight
\* (variant: a worker that dispatches the following steps without waiting)
NextToDispatchEager(idx, pending) == idx + Len(pending)
NextToDispatch(idx, pending) == IF pending = << >> THEN idx ELSE 0

\* Worker Phase: the next step's input substituted and its tool call started
WorkerStart(r) ==
    /\ pc[r] = "graph"
    /\ phase[r] = "WORKING"
    /\ WithinLimit(r)
    /\ NextToDispatch(stepIdx[r], inflight[r]) \in 1 .. Len(St(r).steps)
    /\ LET st == St(r)
           i == NextToDispatch(stepIdx[r], inflight[r])
           step == st.steps[i]
           fails == SubstitutionFails(step.tool_input, st.evidence)
           inp == Substitute(step.tool_input, st.evidence)
       IN  IF fails
           THEN /\ phase' = [phase EXCEPT ![r] = "FAILED"]
                /\ raised' = [raised EXCEPT ![r] = "SubstitutionError"]
                /\ pc' = [pc EXCEPT ![r] = AfterRaise("graph")]
                /\ UNCHANGED inflight
           ELSE /\ inflight' = [inflight EXCEPT ![r] =
                                  Append(@, [ index |-> i,
                                              tool_name |-> step.tool_name,
                                              tool_input |-> inp ])]
                /\ UNCHANGED << phase, raised, pc >>
    /\ UNCHANGED << config, asideVars, buildVars, input, stateRef, heap, calls,
                    stepIdx, graphSteps, plannerCalls, solverCalls, response,
                    lastText >>

\* Worker Phase: the tool call in flight returns (an answer, or an error the
\* dispatcher captured) and its evidence is written under the step's id
WorkerFinish(r) ==
    /\ pc[r] = "graph"
    /\ phase[r] = "WORKING"
    /\ inflight[r] # << >>
    /\ LET st == St(r)
           call == Head(inflight[r])
           step == st.steps[call.index]
           out == Dispatch(graph.tools, call.tool_name, call.tool_input)
       IN  /\ heap' = [heap EXCEPT ![stateRef[r]] =
                         [st EXCEPT !.evidence =
                            PutEvidence(@, step.evidence_id, out)]]
           /\ calls' = [calls EXCEPT ![r] =
                          Append(@, [ tool_name |-> call.tool_name,
                                      tool_input |-> call.tool_input,
                                      output |-> out ])]
           /\ inflight' = [inflight EXCEPT ![r] = Tail(@)]
           /\ stepIdx' = [stepIdx EXCEPT ![r] = @ + 1]
           /\ graphSteps' = [graphSteps EXCEPT ![r] = @ + NodeCost("WORKING")]
           /\ phase' = [phase EXCEPT ![r] =
                           IF stepIdx[r] >= Len(st.steps)
                           THEN "SOLVING" ELSE "WORKING"]
    /\ UNCHANGED << config, asideVars, buildVars, input, stateRef, raised, pc,
                    plannerCalls, solverCalls, response, lastText >>

\* the recursion limit of line 117 stops the graph before its next node
RecursionAbort(r) ==
    /\ pc[r] = "graph"
    /\ phase[r] \in {"PLANNING", "WORKING", "SOLVING"}
    /\ inflight[r] = << >>
    /\ ~ WithinLimit(r)
    /\ phase' = [phase EXCEPT ![r] = "FAILED"]
    /\ raised' = [raised EXCEPT ![r] = "GraphRecursionError"]
    /\ pc' = [pc EXCEPT ![r] = AfterRaise("graph")]
    /\ UNCHANGED << config, asideVars, buildVars, inflight, input, stateRef, heap, graphSteps,
                    stepIdx, plannerCalls, solverCalls, calls, response,
                    lastText >>

\* Solver Phase: one model call, its text becomes result
SolverStep(r) ==
    /\ pc[r] = "graph"
    /\ phase[r] = "SOLVING"
    /\ WithinLimit(r)
    /\ heap' = [heap EXCEPT ![stateRef[r]] = [St(r) EXCEPT !.result = Solve(St(r))]]
    /\ solverCalls' = [solverCalls EXCEPT ![r] = @ + 1]
    /\ graphSteps' = [graphSteps EXCEPT ![r] = @ + NodeCost("SOLVING")]
    /\ phase' = [phase EXCEPT ![r] = "DONE"]
    /\ pc' = [pc EXCEPT ![r] = "read"]
    /\ UNCHANGED << config, asideVars, buildVars, inflight, input, stateRef, stepIdx, plannerCalls,
                    calls, raised, response, lastText >>

\* lines 123-125: the result of the returned state is the response
ReadResult(r) ==
    /\ pc[r] = "read"
    /\ response' = [response EXCEPT ![r] = St(r).result]
    /\ pc' = [pc EXCEPT ![r] = "returned"]
    /\ UNCHANGED << config, asideVars, buildVars, inflight, input, stateRef, heap, phase, graphSteps,
                    stepIdx, plannerCalls, solverCalls, calls, raised, lastText >>

\* lines 127-132: any exception of the try body becomes a response
HandleException(r) ==
    /\ pc[r] = "except"
    /\ response' = [response EXCEPT ![r] = ExceptionResponse(config, raised[r])]
    /\ pc' = [pc EXCEPT ![r] = "returned"]
    /\ UNCHANGED << config, asideVars, buildVars, inflight, input, stateRef, heap, phase, graphSteps,
                    stepIdx, plannerCalls, solverCalls, calls, raised, lastText >>

(***************************************************************************)
(* The components exercised on their own, and the job store.               *)
(***************************************************************************)
\* ---- Substitution Engine (spec.md 4.2) over the characters of its input ----
\* a text is the sequence of its characters
Digits == {"0", "1", "2", "3", "4", "5", "6", "7", "8", "9"}

RECURSIVE DigitRun(_, _)
\* the number of digits of text s from position p on
DigitRun(s, p) ==
    IF p <= Len(s) /\ s[p] \in Digits THEN 1 + DigitRun(s, p + 1) ELSE 0

\* the length of the evidence identifier token of s at position p, "#E" and
\* the digits that follow it (spec.md 4.1, 6), or 0 when none starts there
TokenLen(s, p) ==
    IF /\ p + 2 <= Len(s)
       /\ s[p] = "#"
       /\ s[p + 1] = "E"
       /\ DigitRun(s, p + 2) > 0
    THEN 2 + DigitRun(s, p + 2)
    ELSE 0

\* the evidence identifiers text s references
IdentifiersOf(s) ==
    { SubSeq(s, p, p + TokenLen(s, p) - 1) :
        p \in { q \in 1 .. Len(s) : TokenLen(s, q) > 0 } }

RECURSIVE ReplaceFirstFrom(_, _, _)
\* (variant: only the first identifier of the text is replaced)
ReplaceFirstFrom(s, p, evidence) ==
    IF p > Len(s) THEN << >>
    ELSE LET n == TokenLen(s, p)
         IN  IF n > 0
             THEN evidence[SubSeq(s, p, p + n - 1)] \o SubSeq(s, p + n, Len(s))
             ELSE << s[p] >> \o ReplaceFirstFrom(s, p + 1, evidence)

RECURSIVE ReplaceFrom(_, _, _)
\* text s from position p on, every identifier token replaced by its value
ReplaceFrom(s, p, evidence) ==
    IF p > Len(s) THEN << >>
    ELSE LET n == TokenLen(s, p)
         IN  IF n > 0
             THEN evidence[SubSeq(s, p, p + n - 1)] \o ReplaceFrom(s, p + n, evidence)
             ELSE << s[p] >> \o ReplaceFrom(s, p + 1, evidence)

\* the outcome of the engine: the substituted text, or the error of an
\* identifier that is not a key of the mapping
SubstituteText(s, evidence) ==
    IF IdentifiersOf(s) \subseteq DOMAIN evidence
    THEN [ error |-> FALSE, text |-> ReplaceFrom(s, 1, evidence) ]
    ELSE [ error |-> TRUE, text |-> << >> ]

NoOutcome == [ error |-> FALSE, text |-> << >> ]
SubIdle ==
    [ pc |-> "idle", tool_input |-> << >>, evidence |-> EmptyEvidence,
      out |-> NoOutcome, again |-> NoOutcome ]

\* the pieces tool inputs are put together from: two identifiers, one a
\* prefix of the other, the start of an identifier, digits, other characters
InputPieces ==
    { << "#", "E", "1" >>, << "#", "E", "1", "0" >>, << "#", "E" >>,
      << "0" >>, << "x" >>, << "," >> }

RECURSIVE Concat(_)
Concat(pieces) ==
    IF pieces = << >> THEN << >> ELSE Head(pieces) \o Concat(Tail(pieces))

SubInputs ==
    { Concat(ps) : ps \in UNION { [1 .. n -> InputPieces] : n \in 0 .. MaxPieces } }

\* the values a tool may have returned: text, a number, text that itself
\* holds an identifier
EvidenceValues ==
    { << "1", "2" >>, << "o", "k" >>, << "#", "E", "1" >>,
      << "#", "E", "1", "0" >>, << "s", "e", "e", "#", "E", "2" >> }

EvidenceKeys == { << "#", "E", "1" >>, << "#", "E", "1", "0" >> }

SubEvidences == UNION { [ks -> EvidenceValues] : ks \in SUBSET EvidenceKeys }

\* the engine is applied to an input
ApplySubstitution ==
    /\ sub.pc = "ready"
    /\ sub' = [sub EXCEPT !.pc = "once",
                          !.out = SubstituteText(sub.tool_input, sub.evidence)]
    /\ UNCHANGED << config, buildVars, runVars, prs, jobVars, ds >>

\* the engine is applied to its own output, with the same mapping
ApplyAgain ==
    /\ sub.pc = "once"
    /\ ~ sub.out.error
    /\ sub' = [sub EXCEPT !.pc = "twice",
                          !.again = SubstituteText(sub.out.text, sub.evidence)]
    /\ UNCHANGED << config, buildVars, runVars, prs, jobVars, ds >>

\* ---- Plan Parser: rewoo_plan_pattern (prompt.py line 53) over the tokens ----
\* ---- of a planner text                                                    ----
\* a planner text as the parser reads it: its tokens (words, identifiers,
\* punctuation, line breaks), blanks between them left out
Newline == "\n"

\* `\s`: of the tokens, the line break
IsSpace(tok) == tok = Newline

\* (variant: the pattern compiled with DOTALL)
DotMatchesAll(tok) == TRUE
\* `.`: any token but a line break
DotMatches(tok) == tok # Newline

\* `#E\d+`
IsEvidenceId(tok) == tok \in EvidenceTokens

\* `\w+`: a token of letters, digits and underscores
WordTokens == {"calc", "boom", "nonexistent_tool", "x", "step", "think"}
IsWord(tok) == tok \in WordTokens

RECURSIVE SkipSpace(_, _)
\* `\s*` from position p: the position of the first token that is no space
SkipSpace(t, p) ==
    IF p <= Len(t) /\ IsSpace(t[p]) THEN SkipSpace(t, p + 1) ELSE p

\* the position of the first "]" of t at or after p, 0 when there is none
CloseFrom(t, p) ==
    LET closes == { q \in p .. Len(t) : t[q] = "]" }
    IN  IF closes = {} THEN 0
        ELSE CHOOSE q \in closes : \A q2 \in closes : q <= q2

NoMatch ==
    [ ok |-> FALSE, description |-> << >>, evidence_id |-> "", tool_name |-> "",
      tool_input |-> << >>, end |-> 0 ]

\* `\s*(#E\d+)\s*=\s*(\w+)\s*\[([^\]]+)\]` matched from position q
MatchTail(t, q) ==
    LET a == SkipSpace(t, q)
        b == SkipSpace(t, a + 1)
        c == SkipSpace(t, b + 1)
        d == SkipSpace(t, c + 1)
        e == CloseFrom(t, d + 1)
    IN  IF /\ d <= Len(t)
           /\ IsEvidenceId(t[a])
           /\ t[b] = "="
           /\ IsWord(t[c])
           /\ t[d] = "["
           /\ e > d + 1
        THEN [ ok |-> TRUE, description |-> << >>, evidence_id |-> t[a],
               tool_name |-> t[c], tool_input |-> SubSeq(t, d + 1, e - 1),
               end |-> e ]
        ELSE NoMatch

\* `(.+)`: the positions a description starting at s may end at so that the
\* rest of the pattern matches
DescriptionEnds(t, s) ==
    { e \in s .. Len(t) :
        /\ \A q \in s .. e : DotMatches(t[q])
        /\ MatchTail(t, e + 1).ok }

\* the pattern matched at position p: `Plan:`, `\s*`, the longest description
\* (`.+` is greedy), the rest
MatchAt(t, p) ==
    IF p > Len(t) \/ t[p] # "Plan:" THEN NoMatch
    ELSE LET s == SkipSpace(t, p + 1)
             ends == DescriptionEnds(t, s)
         IN  IF ends = {} THEN NoMatch
             ELSE LET e == CHOOSE x \in ends : \A y \in ends : y <= x
                  IN  [ MatchTail(t, e + 1) EXCEPT !.description = SubSeq(t, s, e) ]

RECURSIVE FindAllFrom(_, _)
\* the matches of the pattern in t from position p on, leftmost first, none
\* overlapping (spec.md 4.1: steps in the order their markers appear)
FindAllFrom(t, p) ==
    IF p > Len(t) THEN << >>
    ELSE LET m == MatchAt(t, p)
         IN  IF m.ok
             THEN << [ description |-> m.description,
                       evidence_id |-> m.evidence_id,
                       tool_name |-> m.tool_name,
                       tool_input |-> m.tool_input ] >>
                  \o FindAllFrom(t, m.end + 1)
             ELSE FindAllFrom(t, p + 1)

\* Plan Parser over the tokens of a planner text
ParsePlanText(t) == FindAllFrom(t, 1)

\* a line of prose that begins like a plan line
PlanProseLine == [ ProseLine EXCEPT !.description = "Plan: think" ]

\* the tokens of one line of a planner text; a plan line is written on one
\* line, or as in SYSTEM_PROMPT (prompt.py lines 37-38) with its evidence
\* assignment on the next
RenderLine(line, split) ==
    IF line.kind = "plan"
    THEN << "Plan:", line.description >> \o
         (IF split THEN << Newline >> ELSE << >>) \o
         << line.evidence_id, "=", line.tool_name, "[" >> \o
         line.tool_input \o << "]" >>
    ELSE IF line = PlanProseLine THEN << "Plan:", "think" >>
    ELSE << line.description >>

RECURSIVE Render(_, _, _)
\* the tokens of a planner text: its lines, each followed by a line break
\* where breaks says so and run on with the next where not
Render(lines, splits, breaks) ==
    IF lines = << >> THEN << >>
    ELSE RenderLine(Head(lines), Head(splits)) \o
         (IF Head(breaks) THEN << Newline >> ELSE << >>) \o
         Render(Tail(lines), Tail(splits), Tail(breaks))

\* the shapes of plan line the parser is exercised on
ParserShapes == {"calc_ref", "unknown"}
LineKinds == {"prose", "planprose"} \cup ParserShapes

\* the lines of kinds ks, plan lines numbered in their order
LinesOf(ks) ==
    [ i \in 1 .. Len(ks) |->
        IF ks[i] = "prose" THEN ProseLine
        ELSE IF ks[i] = "planprose" THEN PlanProseLine
        ELSE PlanLine(ks[i],
                      Cardinality({ j \in 1 .. i : ks[j] \in ParserShapes })) ]

PrsIdle ==
    [ pc |-> "idle", lines |-> << >>, splits |-> << >>, breaks |-> << >>,
      steps |-> << >> ]

\* where the evidence assignment of a plan line may go on the next line: on
\* plan lines only
SplitsFor(ks) ==
    { sp \in [1 .. Len(ks) -> BOOLEAN] :
        \A i \in 1 .. Len(ks) : sp[i] => ks[i] \in ParserShapes }

\* a planner text the parser is exercised on
ParserInput(ks, sp, br) ==
    [ pc |-> "ready", lines |-> LinesOf(ks), splits |-> sp, breaks |-> br,
      steps |-> << >> ]

\* the parser is applied to the text
ApplyParser ==
    /\ prs.pc = "ready"
    /\ prs' = [prs EXCEPT !.pc = "parsed",
                          !.steps = ParsePlanText(Render(prs.lines, prs.splits,
                                                         prs.breaks))]
    /\ UNCHANGED << config, buildVars, runVars, sub, jobVars, ds >>

\* ---- JobStore (front_ends/fastapi/job_store.py) ----
MIN_EXPIRY == 600
MAX_EXPIRY == 86400
DEFAULT_EXPIRY == 3600

\* active jobs are exempt from expiry (line 56)
\* (variant: submitted jobs not counted as active)
ACTIVE_STATUS_RUNNING == {"running"}
ACTIVE_STATUS == {"running", "submitted"}

JobIds == {"job1", "job2"}

\* self._jobs = {} (line 59)
NoJobs == [ j \in {} |-> 0 ]

\* the expiry_seconds arguments callers pass: below the range, inside it (the
\* default), above it
ExpiryRequests == {MIN_EXPIRY - 1, DEFAULT_EXPIRY, MAX_EXPIRY + 1}

\* the (status, error, output_path) arguments update_status is called with
StatusUpdates ==
    { [ status |-> "running", error |-> None, output_path |-> None ],
      [ status |-> "success", error |-> None, output_path |-> "out.json" ],
      [ status |-> "failure", error |-> "boom", output_path |-> None ] }

\* the clock advances by a little more than MIN_EXPIRY or than MAX_EXPIRY,
\* MaxTicks times at most
TickShort == MIN_EXPIRY + 1
TickLong == MAX_EXPIRY + 1
ClockValues ==
    { n[1] * TickShort + n[2] * TickLong :
        n \in { m \in (0 .. MaxTicks) \X (0 .. MaxTicks) : m[1] + m[2] <= MaxTicks } }

Max(a, b) == IF a >= b THEN a ELSE b
Min(a, b) == IF a <= b THEN a ELSE b

\* (variant: only the upper limit applied)
ClampExpiryUpper(expiry_seconds) == Min(expiry_seconds, MAX_EXPIRY)
\* clamped_expiry (line 65)
ClampExpiry(expiry_seconds) == Max(MIN_EXPIRY, Min(expiry_seconds, MAX_EXPIRY))

\* create_job (lines 61-79): the store with the new JobInfo under job_id
create_job(js, config_file, job_id, expiry_seconds, now) ==
    [ x \in DOMAIN js \cup {job_id} |->
        IF x = job_id
        THEN [ job_id |-> job_id, status |-> "submitted",
               config_file |-> config_file, created_at |-> now,
               updated_at |-> now, error |-> None, output_path |-> None,
               expiry_seconds |-> ClampExpiry(expiry_seconds) ]
        ELSE js[x] ]

\* (variant: an error or output_path the call leaves out is kept)
update_status_keep(js, job_id, status, error, output_path, now) ==
    IF job_id \notin DOMAIN js
    THEN [ raised |-> "ValueError", jobs |-> js ]
    ELSE [ raised |-> "",
           jobs |-> [ js EXCEPT ![job_id] =
                        [ @ EXCEPT !.status = status,
                                   !.error = IF error = None THEN @ ELSE error,
                                   !.output_path =
                                       IF output_path = None THEN @
                                       ELSE output_path,
                                   !.updated_at = now ] ] ]
\* (variant: a job that is not in the store is created)
update_status_upsert(js, job_id, status, error, output_path, now) ==
    [ raised |-> "",
      jobs |-> [ x \in DOMAIN js \cup {job_id} |->
                   IF x = job_id
                   THEN [ job_id |-> job_id, status |-> status,
                          config_file |-> "config.yml", created_at |-> now,
                          updated_at |-> now, error |-> error,
                          output_path |-> output_path,
                          expiry_seconds |-> DEFAULT_EXPIRY ]
                   ELSE js[x] ] ]
\* update_status (lines 81-89): what it raises, and the store it leaves
update_status(js, job_id, status, error, output_path, now) ==
    IF job_id \notin DOMAIN js
    THEN [ raised |-> "ValueError", jobs |-> js ]
    ELSE [ raised |-> "",
           jobs |-> [ js EXCEPT ![job_id] =
                        [ @ EXCEPT !.status = status, !.error = error,
                                   !.output_path = output_path,
                                   !.updated_at = now ] ] ]

\* get_expires_at returns None (line 121)
NoExpiry == -1
\* get_expires_at (lines 118-122)
get_expires_at(job) ==
    IF job.status \in ACTIVE_STATUS THEN NoExpiry
    ELSE job.created_at + job.expiry_seconds

\* a JobInfo is a pydantic model (lines 38-46): job["created_at"] and
\* job.get(...) (lines 131, 138) raise; the store's attribute is _jobs (line
\* 59), so self.jobs (line 142) raises
JobInfoSubscriptable == FALSE
HasJobsAttribute == FALSE

\* finished_jobs (line 128)
FinishedJobs(js) == { id \in DOMAIN js : js[id].status \notin ACTIVE_STATUS }

\* sorted_finished[1:] (lines 131-134): all finished jobs but the first of
\* those created last
JobsToCheck(js) ==
    LET finished == FinishedJobs(js)
        newest == { id \in finished :
                      \A o \in finished : js[o].created_at <= js[id].created_at }
    IN  IF finished = {} THEN {}
        ELSE finished \ { CHOOSE id \in newest : TRUE }

\* expired_ids (lines 136-139)
ExpiredIds(js, now) ==
    { id \in JobsToCheck(js) : now - js[id].created_at > js[id].expiry_seconds }

\* cleanup_expired_jobs (lines 124-142): what it raises, and the store it
\* leaves
cleanup_expired_jobs(js, now) ==
    IF FinishedJobs(js) # {} /\ ~ JobInfoSubscriptable
    THEN [ raised |-> "TypeError", jobs |-> js ]
    ELSE IF ExpiredIds(js, now) # {} /\ ~ HasJobsAttribute
    THEN [ raised |-> "AttributeError", jobs |-> js ]
    ELSE [ raised |-> "",
           jobs |-> [ id \in DOMAIN js \ ExpiredIds(js, now) |-> js[id] ] ]

\* the JobStore method called last: its arguments and how it ended
Call(op, job_id, requested, exc, expires) ==
    [ op |-> op, job_id |-> job_id, requested |-> requested, raised |-> exc,
      expires |-> expires ]
NoCall == Call("none", None, 0, "", NoExpiry)

CreateJob ==
    /\ \E id \in JobIds, e \in ExpiryRequests :
          /\ jobs' = create_job(jobs, "config.yml", id, e, clock)
          /\ lastCall' = Call("create_job", id, e, "", NoExpiry)
    /\ UNCHANGED << config, buildVars, runVars, sub, prs, clock, ds >>

UpdateStatus ==
    /\ \E id \in JobIds, u \in StatusUpdates :
          LET r == update_status(jobs, id, u.status, u.error, u.output_path, clock)
          IN  /\ jobs' = r.jobs
              /\ lastCall' = Call("update_status", id, 0, r.raised, NoExpiry)
    /\ UNCHANGED << config, buildVars, runVars, sub, prs, clock, ds >>

GetExpiresAt ==
    /\ \E id \in DOMAIN jobs :
          lastCall' = Call("get_expires_at", id, 0, "", get_expires_at(jobs[id]))
    /\ UNCHANGED << config, buildVars, runVars, sub, prs, jobs, clock, ds >>

CleanupExpiredJobs ==
    /\ LET r == cleanup_expired_jobs(jobs, clock)
       IN  /\ jobs' = r.jobs
           /\ lastCall' = Call("cleanup_expired_jobs", None, 0, r.raised, NoExpiry)
    /\ UNCHANGED << config, buildVars, runVars, sub, prs, clock, ds >>

\* time passes between calls
Tick ==
    /\ \E d \in {TickShort, TickLong} :
          /\ clock + d \in ClockValues
          /\ clock' = clock + d
    /\ lastCall' = NoCall
    /\ UNCHANGED << config, buildVars, runVars, sub, prs, jobs, ds >>


\* ---- DatasetHandler (eval/dataset_handler/dataset_handler.py) ----
\* an id is a text, kept as its pieces; "_rep" is the piece setup_reps puts
\* between an id and its repetition number (line 108)
RepMark == "_rep"

IdA == << "a" >>
\* an id of the dataset that itself reads like a repetition of IdA
IdB == << "a", RepMark, "0" >>

\* a row of the parsed dataset
Row(id, question) == [ id |-> id, question |-> question, answer |-> << "gold" >> \o id ]

\* the parsed and filtered datasets handlers are given: one row, two rows, a
\* row whose id occurs twice, a row with no question
Datasets ==
    { << Row(IdA, "what?") >>,
      << Row(IdA, "what?"), Row(IdB, "which?") >>,
      << Row(IdB, "which?"), Row(IdA, "what?"), Row(IdB, "again?") >>,
      << Row(IdA, ""), Row(IdB, "which?") >> }

\* output_obj = None (lines 209, 244)
NoObj == << None >>
\* what is written for a column of an unstructured row: "" and [] (lines 81-84)
Blank == << >>

EvalInputItem(id, input_obj, expected, output_obj, trajectory, expected_traj) ==
    [ id |-> id, input_obj |-> input_obj,
      expected_output_obj |-> expected, output_obj |-> output_obj,
      trajectory |-> trajectory, expected_trajectory |-> expected_traj ]

RECURSIVE DropDuplicates(_, _)
\* drop_duplicates(subset=[id_key]) (lines 110, 130): of the rows of one id
\* the first is kept; seen holds the ids of the rows before
DropDuplicates(df, seen) ==
    IF df = << >> THEN << >>
    ELSE IF Head(df).id \in seen THEN DropDuplicates(Tail(df), seen)
    ELSE << Head(df) >> \o DropDuplicates(Tail(df), seen \cup {Head(df).id})

RECURSIVE Replicate(_, _)
\* pd.concat([input_df] * self.reps) (line 104)
Replicate(df, n) == IF n = 0 THEN << >> ELSE df \o Replicate(df, n - 1)

\* groupby(id_key).cumcount() (line 106): the rows of the same id before
CumCount(df, p) == Cardinality({ q \in 1 .. p - 1 : df[q].id = df[p].id })

\* id + "_rep" + rep_index (line 108)
RepId(id, k) == id \o << RepMark, ToString(k) >>

\* setup_reps (lines 101-112)
setup_reps(input_df, reps) ==
    LET all == Replicate(input_df, reps)
        renamed == [ p \in 1 .. Len(all) |->
                       [ all[p] EXCEPT !.id = RepId(all[p].id, CumCount(all, p)) ] ]
    IN  DropDuplicates(renamed, {})

\* row.to_json() (line 80): the row as one text
RowToJson(row) == << "{" >> \o row.id \o << row.question >> \o row.answer \o << "}" >>

\* create_eval_item (lines 76-85); the dataset has no generated answer and no
\* trajectory columns
create_eval_item(row, structured) ==
    IF structured
    THEN EvalInputItem(row.id, << row.question >>, row.answer, Blank, Blank, Blank)
    ELSE EvalInputItem(row.id, RowToJson(row), Blank, Blank, Blank, Blank)

\* get_eval_input_from_df (lines 74-99): of a structured dataset the rows
\* with no question are left out (line 96)
get_eval_input_from_df(input_df, structured) ==
    LET kept == IF structured
                THEN SelectSeq(input_df, LAMBDA row : row.question # "")
                ELSE input_df
    IN  [ p \in 1 .. Len(kept) |-> create_eval_item(kept[p], structured) ]

\* get_eval_input_from_dataset (lines 114-137), from the filtered dataset on
get_eval_input_from_dataset(input_df, structured, reps) ==
    LET unique == DropDuplicates(input_df, {})
        df == IF reps > 1 THEN setup_reps(unique, reps) ELSE unique
    IN  get_eval_input_from_df(df, structured)

\* the scores an evaluator gives, and the evaluators of a run
Scores == {0, 1}
Evaluators == << "accuracy", "trajectory" >>

\* an EvalOutput: one EvalOutputItem of id and score per item of the input
EvalOutput(eval_input, score) ==
    [ p \in 1 .. Len(eval_input) |-> [ id |-> eval_input[p].id, score |-> score[p] ] ]

RECURSIVE AllOutputItems(_)
\* the items in the order the loops of lines 218-219 meet them
AllOutputItems(evaluation_results) ==
    IF evaluation_results = << >> THEN << >>
    ELSE Head(evaluation_results) \o AllOutputItems(Tail(evaluation_results))

RECURSIVE SumOf(_)
SumOf(scores) == IF scores = << >> THEN 0 ELSE Head(scores) + SumOf(Tail(scores))

RECURSIVE RepScores(_, _)
\* rep_scores (lines 217-220): per id, in the order the ids were met first,
\* the scores it was given
RepScores(output_items, acc) ==
    IF output_items = << >> THEN acc
    ELSE LET item == Head(output_items)
             known == { i \in 1 .. Len(acc) : acc[i].id = item.id }
         IN  RepScores(Tail(output_items),
                       IF known = {}
                       THEN Append(acc, [ id |-> item.id, scores |-> << item.score >> ])
                       ELSE [ i \in 1 .. Len(acc) |->
                                IF i \in known
                                THEN [ acc[i] EXCEPT !.scores = Append(@, item.score) ]
                                ELSE acc[i] ])

\* sum(scores) / len(scores) (line 223), kept as the fraction
Average(scores) == [ sum |-> SumOf(scores), len |-> Len(scores) ]
\* avg_score > best (line 229)
Greater(a, b) == a.sum * b.len > b.sum * a.len

\* the places of "_rep" in an id
Marks(rep_id) == { i \in 1 .. Len(rep_id) : rep_id[i] = RepMark }
\* (variant: the id cut at its first "_rep")
OriginalIdFirstMark(rep_id) ==
    IF Marks(rep_id) = {} THEN rep_id
    ELSE SubSeq(rep_id, 1, (CHOOSE i \in Marks(rep_id) : \A j \in Marks(rep_id) : i <= j) - 1)
\* rep_id.rsplit("_rep", 1)[0] if "_rep" in rep_id else rep_id (line 228)
OriginalId(rep_id) ==
    IF Marks(rep_id) = {} THEN rep_id
    ELSE SubSeq(rep_id, 1, (CHOOSE i \in Marks(rep_id) : \A j \in Marks(rep_id) : i >= j) - 1)

RECURSIVE BestReps(_, _)
\* best_reps (lines 226-230): per original id, in the order the ids were met
\* first, the repetition of the greatest average met so far
BestReps(rep_scores, acc) ==
    IF rep_scores = << >> THEN acc
    ELSE LET rep == Head(rep_scores)
             avg == Average(rep.scores)
             oid == OriginalId(rep.id)
             known == { i \in 1 .. Len(acc) : acc[i].original_id = oid }
             entry == [ original_id |-> oid, rep_id |-> rep.id, avg |-> avg ]
         IN  BestReps(Tail(rep_scores),
                      IF known = {}
                      THEN Append(acc, entry)
                      ELSE [ i \in 1 .. Len(acc) |->
                               IF i \in known /\ Greater(avg, acc[i].avg)
                               THEN entry ELSE acc[i] ])

\* what a method returned: None, or a list
ReturnedNone == [ none |-> TRUE, items |-> << >> ]
Returned(items) == [ none |-> FALSE, items |-> items ]

\* an item of the ground truth (lines 205-212, 240-247)
GroundTruthItem(id, item, expected_output_obj) ==
    EvalInputItem(id, item.input_obj, expected_output_obj, NoObj, Blank, Blank)

\* generate_ground_truth (lines 188-249)
generate_ground_truth(original_eval_input, evaluation_results, structured, reps) ==
    IF ~ structured THEN ReturnedNone
    ELSE IF reps = 1
    THEN Returned([ p \in 1 .. Len(original_eval_input) |->
                      GroundTruthItem(original_eval_input[p].id, original_eval_input[p],
                                      original_eval_input[p].expected_output_obj) ])
    ELSE LET best == BestReps(RepScores(AllOutputItems(evaluation_results), << >>), << >>)
             Found(b) == { p \in 1 .. Len(original_eval_input) :
                             original_eval_input[p].id = b.rep_id }
             matched == SelectSeq(best, LAMBDA b : Found(b) # {})
         IN  Returned([ t \in 1 .. Len(matched) |->
                          LET p == CHOOSE q \in Found(matched[t]) :
                                       \A o \in Found(matched[t]) : q <= o
                          IN  GroundTruthItem(matched[t].original_id,
                                              original_eval_input[p],
                                              original_eval_input[p].output_obj) ])

\* publish_ground_truth (lines 170-186): line 177 is the expression None, no
\* return, so whatever is_structured_input() says the method goes on to the
\* JSON array of lines 180-186, one object of the three keys per item
publish_ground_truth(eval_input, structured) ==
    Returned([ p \in 1 .. Len(eval_input) |->
                 [ id |-> eval_input[p].id,
                   question |-> eval_input[p].input_obj,
                   answer |-> eval_input[p].expected_output_obj ] ])

DsIdle ==
    [ pc |-> "idle", structured |-> TRUE, reps |-> 1, rows |-> << >>,
      items |-> << >>, results |-> << >>, truth |-> ReturnedNone,
      published |-> ReturnedNone ]

\* get_eval_input_from_dataset is called
LoadDataset ==
    /\ ds.pc = "parsed"
    /\ ds' = [ds EXCEPT !.pc = "loaded",
                        !.items = get_eval_input_from_dataset(ds.rows, ds.structured,
                                                              ds.reps)]
    /\ UNCHANGED << config, buildVars, runVars, sub, prs, jobVars >>

\* the workflow is run on every item: its answer and trajectory are stored
\* in the item
RunWorkflow ==
    /\ ds.pc = "loaded"
    /\ ds' = [ds EXCEPT !.pc = "ran",
                        !.items = [ p \in 1 .. Len(ds.items) |->
                                      [ ds.items[p] EXCEPT
                                          !.output_obj = << "answer", "to" >> \o ds.items[p].id,
                                          !.trajectory = << "step" >> ] ]]
    /\ UNCHANGED << config, buildVars, runVars, sub, prs, jobVars >>

\* every evaluator scores every item
Evaluate ==
    /\ ds.pc = "ran"
    /\ \E score \in [1 .. Len(Evaluators) -> [1 .. Len(ds.items) -> Scores]] :
          ds' = [ds EXCEPT !.pc = "evaluated",
                           !.results = [ e \in 1 .. Len(Evaluators) |->
                                           EvalOutput(ds.items, score[e]) ]]
    /\ UNCHANGED << config, buildVars, runVars, sub, prs, jobVars >>

\* generate_ground_truth is called with the items and the evaluators' results
GenerateGroundTruth ==
    /\ ds.pc = "evaluated"
    /\ ds' = [ds EXCEPT !.pc = "generated",
                        !.truth = generate_ground_truth(ds.items, ds.results,
                                                        ds.structured, ds.reps)]
    /\ UNCHANGED << config, buildVars, runVars, sub, prs, jobVars >>

\* publish_ground_truth is called with the items
PublishGroundTruth ==
    /\ ds.pc = "generated"
    /\ ds' = [ds EXCEPT !.pc = "published",
                        !.published = publish_ground_truth(ds.items, ds.structured)]
    /\ UNCHANGED << config, buildVars, runVars, sub, prs, jobVars >>


(***************************************************************************)
(* Specifications.                                                         *)
(***************************************************************************)
InitRuns ==
    /\ pc = [r \in Runs |-> "idle"]
    /\ input = [r \in Runs |-> NoTask]
    /\ stateRef = [r \in Runs |-> 0]
    /\ heap = [o \in Runs |-> NewGraphState(NoTask)]
    /\ phase = [r \in Runs |-> "IDLE"]
    /\ graphSteps = [r \in Runs |-> 0]
    /\ stepIdx = [r \in Runs |-> 0]
    /\ plannerCalls = [r \in Runs |-> 0]
    /\ solverCalls = [r \in Runs |-> 0]
    /\ calls = [r \in Runs |-> << >>]
    /\ raised = [r \in Runs |-> None]
    /\ response = [r \in Runs |-> << >>]
    /\ lastText = [r \in Runs |-> << >>]
    /\ inflight = [r \in Runs |-> << >>]

\* the components exercised on their own are not in use, the job store is
\* empty
InitAside ==
    /\ sub = SubIdle
    /\ prs = PrsIdle
    /\ jobs = NoJobs
    /\ clock = 0
    /\ lastCall = NoCall
    /\ ds = DsIdle

\* a configuration is loaded and ReWOO_agent_workflow is entered
Init ==
    /\ config \in Configs
    /\ buildPc = 1
    /\ buildError = None
    /\ llm = None
    /\ tools = {}
    /\ graph = NoGraph
    /\ InitRuns
    /\ InitAside

RunStep(r, tasks, texts) ==
    \/ Invoke(r, tasks)
    \/ Trim(r)
    \/ PlannerCall(r, texts)
    \/ WorkerStart(r)
    \/ WorkerFinish(r)
    \/ RecursionAbort(r)
    \/ SolverStep(r)
    \/ ReadResult(r)
    \/ HandleException(r)

\* one workflow, one invocation of its entry point
Next ==
    \/ Build
    \/ RunStep(1, {NoTask, TaskOf(1)}, AllPlannerTexts)

Spec == Init /\ [][Next]_vars

\* the configurations ConcSpec starts from: the defaults of max_retries and
\* retry_parsing_errors (register.py lines 44-45), a small max_iterations
ConcConfigs ==
    { c \in Configs : /\ c.system_prompt = NoPrompt
                      /\ c.additional_instructions = NoInstructions
                      /\ c.retry_parsing_errors
                      /\ c.max_retries = 1
                      /\ c.max_iterations = ConcIter }

\* the planner outputs of ConcSpec: none parseable, a short plan with a tool
\* error and a reference to it, a plan longer than max_iterations
ConcPlannerTexts ==
    { UnparseableText,
      << ProseLine, PlanLine("unknown", 1), PlanLine("calc_ref", 2) >>,
      << ProseLine >> \o [ i \in 1 .. ConcIter + 1 |->
                              PlanLine(IF i = 1 THEN "calc_lit" ELSE "calc_ref", i) ] }

\* a built workflow: the state Spec reaches when construction completes
BuiltAgent(cfgs) ==
    /\ config \in cfgs
    /\ buildPc = BuildReady
    /\ buildError = None
    /\ llm = "llm_client"
    /\ tools = get_tools(config)
    /\ graph = GraphArgs(config, llm, tools)
    /\ InitRuns

InitBuilt(cfgs) == BuiltAgent(cfgs) /\ InitAside

InitConc == InitBuilt(ConcConfigs)

\* several invocations of the entry point of one workflow, interleaved
NextConc == \E r \in Runs : RunStep(r, {NoTask, TaskOf(r)}, ConcPlannerTexts)

ConcSpec == InitConc /\ [][NextConc]_vars

\* plan line i of a planner text, with the evidence identifier the planner
\* chose for it: the pattern (prompt.py line 53) takes any #E<n> on any line
PlanLineNamed(shape, i, n) == [ PlanLine(shape, i) EXCEPT !.evidence_id = EvId(n) ]

\* the planner outputs of EvidenceSpec: none parseable, and plans whose steps
\* carry identifiers in any order, repeated ones among them
EvidencePlannerTexts ==
    {UnparseableText} \cup
    UNION { { << ProseLine >> \o
              [ i \in 1 .. n |-> PlanLineNamed(f[i], i, ids[i]) ] :
              f \in [1 .. n -> {"calc_lit", "unknown"}],
              ids \in [1 .. n -> 1 .. n] } : n \in 1 .. MaxPlanLen }

\* one invocation of a built workflow whose planner numbers its steps as it
\* likes
InitEvidence == InitBuilt(ConcConfigs)

NextEvidence == RunStep(1, {NoTask, TaskOf(1)}, EvidencePlannerTexts)

EvidenceSpec == InitEvidence /\ [][NextEvidence]_vars

\* one invocation of a workflow built with the default prompt; the event loop
\* runs the invocation's coroutine whenever it can take a step
InitLive ==
    InitBuilt({ c \in Configs : /\ c.system_prompt = NoPrompt
                                /\ c.additional_instructions = NoInstructions })

NextLive == RunStep(1, {NoTask, TaskOf(1)}, AllPlannerTexts)

LiveSpec == InitLive /\ [][NextLive]_vars /\ WF_vars(NextLive)

\* the workflow built with the default configuration, no invocation made
IdleAgent ==
    BuiltAgent({ c \in ConcConfigs : ~ c.verbose })

\* the Substitution Engine on its own: an input and a mapping, the engine
\* applied once and then to its own output
InitSubst ==
    /\ IdleAgent
    /\ sub \in [ pc : {"ready"}, tool_input : SubInputs, evidence : SubEvidences,
                  out : {NoOutcome}, again : {NoOutcome} ]
    /\ prs = PrsIdle
    /\ jobs = NoJobs
    /\ clock = 0
    /\ lastCall = NoCall
    /\ ds = DsIdle

NextSubst == ApplySubstitution \/ ApplyAgain

SubstSpec == InitSubst /\ [][NextSubst]_vars

\* the Plan Parser on its own: a planner text, the parser applied to it
InitParse ==
    /\ IdleAgent
    /\ \E n \in 1 .. MaxLines :
         \E ks \in [1 .. n -> LineKinds] :
            \E sp \in SplitsFor(ks), br \in [1 .. n -> BOOLEAN] :
               prs = ParserInput(ks, sp, br)
    /\ sub = SubIdle
    /\ jobs = NoJobs
    /\ clock = 0
    /\ lastCall = NoCall
    /\ ds = DsIdle

NextParse == ApplyParser

ParseSpec == InitParse /\ [][NextParse]_vars

\* a DatasetHandler from a parsed dataset on: the items made of it, the
\* workflow run and scored, the ground truth generated and published
InitDataset ==
    /\ IdleAgent
    /\ sub = SubIdle
    /\ prs = PrsIdle
    /\ jobs = NoJobs
    /\ clock = 0
    /\ lastCall = NoCall
    /\ \E structured \in BOOLEAN, reps \in 1 .. MaxReps, rows \in Datasets :
          ds = [ DsIdle EXCEPT !.pc = "parsed", !.structured = structured,
                               !.reps = reps, !.rows = rows ]

NextDataset ==
    \/ LoadDataset
    \/ RunWorkflow
    \/ Evaluate
    \/ GenerateGroundTruth
    \/ PublishGroundTruth

DatasetSpec == InitDataset /\ [][NextDataset]_vars

\* a job store from its construction on: calls of its methods, time passing
InitJobs ==
    /\ IdleAgent
    /\ sub = SubIdle
    /\ prs = PrsIdle
    /\ jobs = NoJobs
    /\ clock = 0
    /\ lastCall = NoCall
    /\ ds = DsIdle

NextJobs ==
    \/ CreateJob
    \/ UpdateStatus
    \/ GetExpiresAt
    \/ CleanupExpiredJobs
    \/ Tick

JobSpec == InitJobs /\ [][NextJobs]_vars

(***************************************************************************)
(* Properties.                                                             *)
(***************************************************************************)
\* the GraphState fields of invocation r, once it has a GraphState
Started(r) == stateRef[r] # 0
StepsOf(r) == IF Started(r) THEN St(r).steps ELSE << >>
EvidenceOf(r) == IF Started(r) THEN St(r).evidence ELSE EmptyEvidence
ResultOf(r) == IF Started(r) THEN St(r).result ELSE Absent

\* the first n steps of invocation r's plan were dispatched, in plan order
DispatchedFirst(r, n) ==
    /\ Len(calls[r]) = n
    /\ n <= Len(StepsOf(r))
    /\ \A i \in 1 .. n : calls[r][i].tool_name = StepsOf(r)[i].tool_name

\* C1 as claimed: a run with max_iterations = k whose plan has more than k
\* steps (and is not stopped by an unresolved reference) dispatches exactly the
\* first k steps, runs the Solver Phase and ends in DONE with a result set.
C1_Truncates ==
    \A r \in Runs :
        ( /\ pc[r] = "returned"
          /\ Len(StepsOf(r)) > config.max_iterations
          /\ raised[r] # "SubstitutionError" )
        => /\ DispatchedFirst(r, config.max_iterations)
           /\ solverCalls[r] = 1
           /\ phase[r] = "DONE"
           /\ ResultOf(r) # Absent

\* C1 amended: a run with max_iterations = k whose plan has more than k steps
\* never runs the Solver Phase and never has a result; it dispatches at most k
\* tool calls, the first steps in plan order; it ends FAILED, and when it is
\* the recursion limit that stops it exactly the first k steps were dispatched
\* and the caller gets the response of an exception.
C1_AbortsAtLimit ==
    \A r \in Runs :
        Len(StepsOf(r)) > config.max_iterations
        => /\ Len(calls[r]) <= config.max_iterations
           /\ DispatchedFirst(r, Len(calls[r]))
           /\ solverCalls[r] = 0
           /\ ResultOf(r) = Absent
           /\ phase[r] \in {"WORKING", "FAILED"}
           /\ pc[r] = "returned"
              => /\ phase[r] = "FAILED"
                 /\ raised[r] \in {"GraphRecursionError", "SubstitutionError"}
                 /\ response[r] = ExceptionResponse(config, raised[r])
           /\ raised[r] = "GraphRecursionError"
              => DispatchedFirst(r, config.max_iterations)

\* a run stopped by the recursion limit after exactly max_iterations tool calls
C1_Witness ==
    \E r \in Runs :
        /\ pc[r] = "returned"
        /\ raised[r] = "GraphRecursionError"
        /\ Len(StepsOf(r)) > config.max_iterations
        /\ Len(calls[r]) = config.max_iterations

\* the planner outputs a configuration allows one run to request
PlannerBudget(cfg) == IF cfg.retry_parsing_errors THEN cfg.max_retries + 1 ELSE 1

\* C2: the planner is invoked at most max_retries + 1 times with
\* retry_parsing_errors enabled and at most once with it disabled; a run whose
\* every output failed to parse ends with a PlanParseError after exactly that
\* many outputs, with no steps, and requests no further output.
C2_BoundedRetries ==
    \A r \in Runs :
        /\ plannerCalls[r] <= PlannerBudget(config)
        /\ raised[r] = "PlanParseError"
           => /\ plannerCalls[r] = PlannerBudget(config)
              /\ phase[r] = "FAILED"
              /\ StepsOf(r) = << >>
              /\ pc[r] \in {"except", "returned"}
        /\ (phase[r] = "PLANNING" /\ plannerCalls[r] > 0)
           => /\ config.retry_parsing_errors
              /\ St(r).retry_count = plannerCalls[r]

\* max_retries = 1: the run ended with a PlanParseError after two outputs
C2_Witness ==
    \E r \in Runs :
        /\ config.retry_parsing_errors
        /\ config.max_retries = 1
        /\ raised[r] = "PlanParseError"
        /\ plannerCalls[r] = 2
        /\ pc[r] = "returned"

\* the error-annotated strings the dispatcher stores as evidence
IsDispatchError(v) ==
    \E n \in ConfiguredToolNames \cup {"nonexistent_tool"} :
        v \in {UnknownToolError(n), ToolRaisedError(n)}

\* every evidence reference of a plan names the evidence of an earlier step
PlanResolvable(steps) ==
    \A j \in 1 .. Len(steps) :
        \A p \in 1 .. Len(steps[j].tool_input) :
            steps[j].tool_input[p] \in EvidenceTokens
            => \E i \in 1 .. j - 1 : steps[i].evidence_id = steps[j].tool_input[p]

\* C3: a step whose tool is not configured, or whose tool raises, gets an
\* error-annotated string as its evidence value; later steps that reference it
\* are dispatched with that string in place of the reference; no exception of
\* a run is a dispatch error; and a run whose plan fits max_iterations and
\* has no unresolved reference ends in DONE with a result, every step
\* dispatched, whatever tool errors it met.
C3_ErrorsBecomeEvidence ==
    \A r \in Runs :
        /\ \A i \in 1 .. Len(calls[r]) :
              LET step == StepsOf(r)[i]
                  out == calls[r][i].output
              IN  /\ step.tool_name \notin config.tool_names
                     => out = UnknownToolError(step.tool_name)
                  /\ (step.tool_name \in config.tool_names /\ ToolRaises(step.tool_name))
                     => out = ToolRaisedError(step.tool_name)
                  /\ (step.tool_name \in config.tool_names /\ ~ ToolRaises(step.tool_name))
                     => ~ IsDispatchError(out)
                  /\ step.evidence_id \in DOMAIN EvidenceOf(r)
                  /\ EvidenceOf(r)[step.evidence_id] = out
                  /\ \A j \in i + 1 .. Len(calls[r]) :
                        \A p \in 1 .. Len(StepsOf(r)[j].tool_input) :
                            StepsOf(r)[j].tool_input[p] = step.evidence_id
                            => calls[r][j].tool_input[p] = out
        /\ raised[r] \in {None, "IndexError: list index out of range",
                          "PlanParseError", "SubstitutionError",
                          "GraphRecursionError"}
        /\ ( /\ pc[r] = "returned"
             /\ Len(StepsOf(r)) \in 1 .. config.max_iterations
             /\ PlanResolvable(StepsOf(r)) )
           => /\ phase[r] = "DONE"
              /\ DispatchedFirst(r, Len(StepsOf(r)))
              /\ ResultOf(r) # Absent
              /\ response[r] = ResultOf(r)

\* a run that is DONE although an unknown tool's error was stored as evidence
\* and passed to the next step in place of the reference
C3_Witness ==
    \E r \in Runs :
        /\ phase[r] = "DONE"
        /\ Len(calls[r]) >= 2
        /\ calls[r][1].output = UnknownToolError("nonexistent_tool")
        /\ calls[r][2].tool_input = << "x", UnknownToolError("nonexistent_tool") >>
        /\ pc[r] = "returned"

\* the configuration's custom system prompt lacks a required placeholder
InvalidPrompt(cfg) ==
    /\ HasCustomPrompt(cfg)
    /\ ~ (RequiredPlaceholders \subseteq cfg.system_prompt.placeholders)

\* C4: with a custom system_prompt that lacks a required placeholder,
\* construction gets no further than raising ValueError "Invalid
\* system_prompt": no model client is obtained, no tool set, no graph is built,
\* no invocation starts and no model call is made.
C4_InvalidPromptRaisesFirst ==
    /\ InvalidPrompt(config)
       => /\ buildPc \in {1, BuildRaised}
          /\ llm = None
          /\ tools = {}
          /\ graph = NoGraph
          /\ \A r \in Runs : /\ pc[r] = "idle"
                             /\ plannerCalls[r] = 0
                             /\ solverCalls[r] = 0
    /\ buildPc = BuildRaised
       <=> buildError = "Invalid system_prompt"
    /\ buildPc = BuildRaised => InvalidPrompt(config)

\* construction raised for a prompt that has the tool names but not the tools
C4_Witness ==
    /\ buildPc = BuildRaised
    /\ config.system_prompt.placeholders = {"tool_names"}
    /\ buildError = "Invalid system_prompt"

\* C5: no exception leaves the entry point: an exception raised while
\* trimming the history or running the graph is caught, and the response
\* returned for it is the generic message when verbose is false and the text
\* of the exception when verbose is true.
C5_ExceptionsBecomeResponses ==
    \A r \in Runs :
        /\ pc[r] # "escaped"
        /\ raised[r] # None => pc[r] \in {"except", "returned"}
        /\ (pc[r] = "returned" /\ raised[r] # None)
           => /\ ~ config.verbose => response[r] = << "I seem to be having a problem." >>
              /\ config.verbose => response[r] = << raised[r] >>

\* verbose: the text of the exception of an empty trimmed history is returned
C5_Witness ==
    \E r \in Runs :
        /\ pc[r] = "returned"
        /\ config.verbose
        /\ input[r] = NoTask
        /\ response[r] = << "IndexError: list index out of range" >>

\* invocation q ended DONE after a tool dispatch error was stored as evidence
EndedWithDispatchError(q) ==
    /\ pc[q] = "returned"
    /\ phase[q] = "DONE"
    /\ \E i \in 1 .. Len(calls[q]) : IsDispatchError(calls[q][i].output)

\* C6 as claimed: the response of a run the recursion limit stopped differs
\* from the response of a run that ended with a plan-parse failure and from
\* the response of a run that met a tool-dispatch error.
C6_DistinctFailureKind ==
    \A r, q \in Runs :
        ( /\ pc[r] = "returned"
          /\ raised[r] = "GraphRecursionError"
          /\ \/ pc[q] = "returned" /\ raised[q] = "PlanParseError"
             \/ EndedWithDispatchError(q) )
        => response[r] # response[q]

\* C6 amended: a run the recursion limit stops is aborted, FAILED with no
\* result; its response differs from that of every run that ended DONE, a
\* tool-dispatch error or not; it differs from the response of a plan-parse
\* failure exactly when verbose is true, and with verbose false both are the
\* one generic message.
C6_DistinctOnlyWhenVerbose ==
    \A r, q \in Runs :
        (pc[r] = "returned" /\ raised[r] = "GraphRecursionError")
        => /\ phase[r] = "FAILED"
           /\ ResultOf(r) = Absent
           /\ (pc[q] = "returned" /\ phase[q] = "DONE")
              => response[r] # response[q]
           /\ (pc[q] = "returned" /\ raised[q] = "PlanParseError")
              => /\ (response[r] # response[q]) <=> config.verbose
                 /\ ~ config.verbose => response[r] = GenericMessage

\* verbose off: one run stopped by the recursion limit, another by a
\* plan-parse failure, and the caller got the same response for both
C6_Witness ==
    \E r, q \in Runs :
        /\ ~ config.verbose
        /\ pc[r] = "returned" /\ raised[r] = "GraphRecursionError"
        /\ pc[q] = "returned" /\ raised[q] = "PlanParseError"
        /\ response[r] = response[q]

\* every parsed step of invocation r has an entry in its Evidence mapping
AllStepsAttempted(r) ==
    /\ Len(StepsOf(r)) >= 1
    /\ \A i \in 1 .. Len(StepsOf(r)) :
          StepsOf(r)[i].evidence_id \in DOMAIN EvidenceOf(r)
    /\ Len(calls[r]) = Len(StepsOf(r))

\* C7: result is written at most once, by the Solver Phase alone (the step
\* from SOLVING to DONE that makes the one solver call), and when it is
\* written, and whenever it is set, every parsed step has been attempted.
C7_ResultWrittenOnce ==
    /\ [](\A r \in Runs :
            ResultOf(r) # Absent
            => /\ phase[r] = "DONE"
               /\ solverCalls[r] = 1
               /\ AllStepsAttempted(r))
    /\ [][\A r \in Runs :
            ResultOf(r)' # ResultOf(r)
            => /\ ResultOf(r) = Absent
               /\ phase[r] = "SOLVING"
               /\ phase'[r] = "DONE"
               /\ solverCalls'[r] = solverCalls[r] + 1
               /\ AllStepsAttempted(r)]_vars

\* a result written over a plan of several steps, one of them a captured error
C7_Witness ==
    \E r \in Runs :
        /\ ResultOf(r) # Absent
        /\ Len(StepsOf(r)) >= 2
        /\ \E i \in 1 .. Len(calls[r]) : calls[r][i].output = ToolRaisedError("boom")

\* the position of an invocation in its course, and what remains of the
\* loop of its phase: the planner outputs it may still retry with, the steps
\* the Worker Phase has not attempted
Course(r) ==
    CASE pc[r] = "idle" -> 7
      [] pc[r] = "trim" -> 6
      [] pc[r] = "graph" /\ phase[r] = "PLANNING" -> 5
      [] pc[r] = "graph" /\ phase[r] = "WORKING" -> 4
      [] pc[r] = "graph" /\ phase[r] = "SOLVING" -> 3
      [] pc[r] = "read" -> 2
      [] pc[r] = "except" -> 1
      [] OTHER -> 0

Remaining(r) ==
    CASE pc[r] = "graph" /\ phase[r] = "PLANNING" ->
            (IF graph.retry_parsing_errors THEN graph.max_retries + 1 ELSE 1)
            - St(r).retry_count
      [] pc[r] = "graph" /\ phase[r] = "WORKING" ->
            2 * (Len(StepsOf(r)) + 1 - stepIdx[r]) - Len(inflight[r])
      [] OTHER -> 1

\* C8: every run terminates: a run in PLANNING, WORKING or SOLVING reaches
\* DONE or FAILED; it cannot loop, since every step of an invocation moves it
\* on in its course or, within PLANNING and WORKING, uses up one of a finite
\* number of remaining planner outputs or plan steps; and it stays within the
\* caps: at most (max_iterations + 1) * 2 orchestration steps, at most
\* max_iterations tool calls.
C8_Terminates ==
    /\ \A r \in Runs :
          (phase[r] \in {"PLANNING", "WORKING", "SOLVING"})
          ~> (phase[r] \in {"DONE", "FAILED"})
    /\ [](\A r \in Runs :
            /\ graphSteps[r] <= (config.max_iterations + 1) * 2
            /\ Len(calls[r]) <= config.max_iterations)
    /\ [][\A r \in Runs :
            /\ Remaining(r)' >= 1
            /\ << pc[r], phase[r], plannerCalls[r], stepIdx[r], inflight[r] >>' #
               << pc[r], phase[r], plannerCalls[r], stepIdx[r], inflight[r] >>
               => \/ Course(r)' < Course(r)
                  \/ Course(r)' = Course(r) /\ Remaining(r)' < Remaining(r)]_vars

\* a run that reached DONE after a planner retry and several tool calls
C8_Witness ==
    \E r \in Runs :
        /\ phase[r] = "DONE"
        /\ plannerCalls[r] = 2
        /\ Len(calls[r]) >= 2

\* the changes of phase the orchestrator may make
PhaseMoves ==
    { << "IDLE", "PLANNING" >>, << "PLANNING", "WORKING" >>,
      << "WORKING", "SOLVING" >>, << "SOLVING", "DONE" >>,
      << "PLANNING", "FAILED" >>, << "WORKING", "FAILED" >> }

\* C9: the phase only moves forward along PLANNING, WORKING, SOLVING, DONE;
\* FAILED is entered only from PLANNING or WORKING, never from SOLVING; DONE
\* and FAILED are never left, and no phase is entered again once left.
C9_PhaseOrder ==
    [][\A r \in Runs :
         phase'[r] # phase[r] => << phase[r], phase'[r] >> \in PhaseMoves]_vars

\* FAILED entered from WORKING after a step had been dispatched
C9_Witness ==
    \E r \in Runs :
        /\ phase[r] = "FAILED"
        /\ Len(calls[r]) >= 1
        /\ raised[r] = "SubstitutionError"

(***************************************************************************)
(* The outcome of one invocation run alone, as a function of what it is    *)
(* given: the configuration, the task, the planner output it ends with.    *)
(***************************************************************************)
RECURSIVE SoloEvidence(_, _, _)
\* the Evidence mapping once the first n steps were dispatched in order
SoloEvidence(toolset, steps, n) ==
    IF n = 0 THEN EmptyEvidence
    ELSE LET ev == SoloEvidence(toolset, steps, n - 1)
             inp == Substitute(steps[n].tool_input, ev)
         IN  PutEvidence(ev, steps[n].evidence_id,
                         Dispatch(toolset, steps[n].tool_name, inp))

\* the steps of a plan that reference evidence no earlier step produces
Unresolved(steps) ==
    { j \in 1 .. Len(steps) :
        \E p \in 1 .. Len(steps[j].tool_input) :
            /\ steps[j].tool_input[p] \in EvidenceTokens
            /\ \A i \in 1 .. j - 1 : steps[i].evidence_id # steps[j].tool_input[p] }

SoloResponse(cfg, task, text) ==
    LET steps == ParsePlan(text)
        k == cfg.max_iterations
        ev == SoloEvidence(cfg.tool_names, steps, Len(steps))
    IN  IF task = NoTask
        THEN ExceptionResponse(cfg, "IndexError: list index out of range")
        ELSE IF steps = << >>
        THEN ExceptionResponse(cfg, "PlanParseError")
        ELSE IF \E j \in Unresolved(steps) : j <= k
        THEN ExceptionResponse(cfg, "SubstitutionError")
        ELSE IF Len(steps) > k
        THEN ExceptionResponse(cfg, "GraphRecursionError")
        ELSE << "Answer", task >> \o
             [ i \in 1 .. Len(steps) |-> ev[steps[i].evidence_id] ]

\* invocation r takes a step
Acted(r) ==
    << pc[r], phase[r], plannerCalls[r], stepIdx[r], inflight[r] >>' #
    << pc[r], phase[r], plannerCalls[r], stepIdx[r], inflight[r] >>

\* C10: concurrent invocations over one built graph, tool set and model
\* client each have a GraphState of their own: under every interleaving a
\* step of one invocation leaves the GraphState (task, steps, evidence,
\* retry count, result), the tool calls and the response of every other
\* invocation unchanged, and the response each invocation returns is the one
\* it returns when run alone on its task and planner output.
C10_RunsIsolated ==
    /\ [](\A r \in Runs :
            /\ \A q \in Runs \ {r} :
                  (Started(r) /\ Started(q)) => stateRef[r] # stateRef[q]
            /\ Started(r) => St(r).task = input[r]
            /\ pc[r] = "returned"
               => response[r] = SoloResponse(config, input[r], lastText[r]))
    /\ [][\A r \in Runs :
            Acted(r)
            => \A q \in Runs \ {r} :
                  /\ ~ Acted(q)
                  /\ Started(q) => (St(q)' = St(q))
                  /\ calls'[q] = calls[q]
                  /\ response'[q] = response[q]]_vars

\* two invocations in the Worker Phase at once, on different tasks and plans,
\* each with a tool call made and evidence of its own
C10_Witness ==
    \E r, q \in Runs :
        /\ r # q
        /\ phase[r] = "WORKING" /\ phase[q] = "WORKING"
        /\ Len(calls[r]) >= 1 /\ Len(calls[q]) >= 1
        /\ St(r).task # St(q).task
        /\ St(r).steps # St(q).steps
        /\ St(r).evidence # St(q).evidence

(***************************************************************************)
(* The Worker Phase: unresolved references, sequencing.                    *)
(***************************************************************************)
\* the tool calls of invocation r that were handed to a tool: those that
\* returned and the one in flight, each with the index of its step
Handed(r) ==
    { [ index |-> i, tool_input |-> calls[r][i].tool_input ] :
        i \in 1 .. Len(calls[r]) }
    \cup { [ index |-> inflight[r][k].index,
             tool_input |-> inflight[r][k].tool_input ] :
             k \in 1 .. Len(inflight[r]) }

\* C11: a step whose tool_input references an evidence identifier that is not
\* in the Evidence mapping when the step is reached (a later step's, or one no
\* step produces) is never handed to a tool: the run raises SubstitutionError
\* at that step, ends FAILED without a result, and its error is no tool
\* output.  Every reference of an input that was handed to a tool named the
\* evidence of an earlier step and was replaced by that evidence's value,
\* never left in place and never replaced by a blank.
C11_UnresolvedReferenceFails ==
    \A r \in Runs :
        /\ \A h \in Handed(r) :
              /\ h.index \notin Unresolved(StepsOf(r))
              /\ \A p \in 1 .. Len(StepsOf(r)[h.index].tool_input) :
                    LET tok == StepsOf(r)[h.index].tool_input[p]
                    IN  tok \in EvidenceTokens
                        => /\ tok \in DOMAIN EvidenceOf(r)
                           /\ h.tool_input[p] = EvidenceOf(r)[tok]
                           /\ h.tool_input[p] \notin EvidenceTokens \cup {"", " "}
        /\ raised[r] = "SubstitutionError"
           => /\ phase[r] = "FAILED"
              /\ stepIdx[r] \in Unresolved(StepsOf(r))
              /\ Len(calls[r]) = stepIdx[r] - 1
              /\ inflight[r] = << >>
              /\ ResultOf(r) = Absent
              /\ pc[r] = "returned"
                 => response[r] = ExceptionResponse(config, "SubstitutionError")
        /\ (phase[r] \in {"SOLVING", "DONE"}) => Unresolved(StepsOf(r)) = {}

\* a run failed at a step that references the evidence of the step after it,
\* after an earlier step had been dispatched
C11_Witness ==
    \E r \in Runs :
        /\ raised[r] = "SubstitutionError"
        /\ pc[r] = "returned"
        /\ stepIdx[r] = 2
        /\ Len(StepsOf(r)) = 3
        /\ StepsOf(r)[2].tool_input[1] = StepsOf(r)[3].evidence_id
        /\ Len(calls[r]) = 1

\* C20: the Worker Phase dispatches one step at a time in parsed order: at
\* most one tool call of a run is in flight; a tool call starts only when
\* none is in flight, for the step after the last one that returned, with the
\* evidence of every earlier step written under that step's evidence_id;
\* its input is the step's tool_input substituted with the Evidence mapping
\* as the steps before it left it.
C20_SequentialWorker ==
    /\ [](\A r \in Runs :
            LET steps == StepsOf(r)
                done == Len(calls[r])
            IN  /\ Len(inflight[r]) <= 1
                /\ done <= Len(steps)
                /\ steps # << >> => stepIdx[r] = done + 1
                /\ EvidenceOf(r) = SoloEvidence(config.tool_names, steps, done)
                /\ DOMAIN EvidenceOf(r) =
                      { steps[i].evidence_id : i \in 1 .. done }
                /\ \A i \in 1 .. done :
                      /\ calls[r][i].tool_name = steps[i].tool_name
                      /\ calls[r][i].tool_input =
                            Substitute(steps[i].tool_input,
                                       SoloEvidence(config.tool_names, steps, i - 1))
                      /\ EvidenceOf(r)[steps[i].evidence_id] = calls[r][i].output
                /\ \A k \in 1 .. Len(inflight[r]) :
                      /\ inflight[r][k].index = done + 1
                      /\ inflight[r][k].tool_name = steps[done + 1].tool_name
                      /\ inflight[r][k].tool_input =
                            Substitute(steps[done + 1].tool_input, EvidenceOf(r)))
    /\ [][\A r \in Runs :
            Len(inflight[r]') > Len(inflight[r])
            => /\ inflight[r] = << >>
               /\ \A i \in 1 .. inflight[r]'[1].index - 1 :
                     StepsOf(r)[i].evidence_id \in DOMAIN EvidenceOf(r)
               /\ calls[r]' = calls[r]
               /\ EvidenceOf(r)' = EvidenceOf(r)]_vars

\* the tool call of step 2 in flight, its input holding the evidence step 1
\* wrote
C20_Witness ==
    \E r \in Runs :
        /\ Len(inflight[r]) = 1
        /\ inflight[r][1].index = 2
        /\ Len(calls[r]) = 1
        /\ inflight[r][1].tool_input = << "x", calls[r][1].output >>
        /\ EvidenceOf(r)[StepsOf(r)[1].evidence_id] = calls[r][1].output

(***************************************************************************)
(* The planner's prompt.                                                   *)
(***************************************************************************)
\* the base system prompt of a configuration
BasePrompt(cfg) == IF HasCustomPrompt(cfg) THEN cfg.system_prompt ELSE SYSTEM_PROMPT

\* C15: when the configuration supplies additional_instructions, the system
\* message of the prompt the graph is built with is the base system prompt
\* (the custom one, or the default template) with the instructions appended.
C15_InstructionsAppended ==
    (graph.built /\ config.additional_instructions # NoInstructions)
    => graph.prompt.system =
          [ base |-> BasePrompt(config),
            appended |-> << config.additional_instructions >> ]

(***************************************************************************)
(* The Substitution Engine.                                                *)
(***************************************************************************)
\* text k occurs in text s
Occurs(k, s) ==
    \E p \in 1 .. Len(s) - Len(k) + 1 : SubSeq(s, p, p + Len(k) - 1) = k

Chars(s) == { s[p] : p \in 1 .. Len(s) }

\* the engine was applied to the input and returned a text
Substituted == sub.pc \in {"once", "twice"} /\ ~ sub.out.error

\* the values the input's identifiers stand for hold no "#", and every "#" of
\* the input begins an identifier
PlainSubstitution ==
    /\ \A k \in IdentifiersOf(sub.tool_input) \cap DOMAIN sub.evidence :
          "#" \notin Chars(sub.evidence[k])
    /\ \A p \in 1 .. Len(sub.tool_input) :
          sub.tool_input[p] = "#" => TokenLen(sub.tool_input, p) > 0

\* C12 as claimed: whenever substitution succeeds, no identifier of the
\* tool_input that is a key of the mapping occurs in the output, whatever the
\* stored values are.
C12_NoIdentifierRemains ==
    Substituted
    => \A k \in IdentifiersOf(sub.tool_input) \cap DOMAIN sub.evidence :
          ~ Occurs(k, sub.out.text)

\* C12 amended: whenever substitution succeeds, the values substituted hold no
\* "#" and every "#" of the tool_input begins an identifier, the output holds
\* no "#" and so no occurrence of any key of the mapping, also when one key is
\* a prefix of another.
C12_NoIdentifierRemainsPlain ==
    (Substituted /\ PlainSubstitution)
    => /\ "#" \notin Chars(sub.out.text)
       /\ \A k \in DOMAIN sub.evidence : ~ Occurs(k, sub.out.text)

\* #E1 and #E10 are both keys and both in the input; each got its own value
C12_Witness ==
    /\ Substituted
    /\ PlainSubstitution
    /\ sub.tool_input = << "#", "E", "1", ",", "#", "E", "1", "0" >>
    /\ DOMAIN sub.evidence = EvidenceKeys
    /\ sub.evidence[<< "#", "E", "1" >>] = << "1", "2" >>
    /\ sub.evidence[<< "#", "E", "1", "0" >>] = << "o", "k" >>
    /\ sub.out.text = << "1", "2", ",", "o", "k" >>

\* C13 as claimed: whenever substitution succeeds, the engine applied to its
\* own output with the same mapping succeeds and returns that output.
C13_Idempotent ==
    sub.pc = "twice" => (~ sub.again.error /\ sub.again.text = sub.out.text)

\* C13 amended: whenever substitution succeeds, the values substituted hold no
\* "#" and every "#" of the tool_input begins an identifier, the engine
\* applied to its own output with the same mapping succeeds and returns that
\* output unchanged.
C13_IdempotentPlain ==
    (sub.pc = "twice" /\ PlainSubstitution)
    => (~ sub.again.error /\ sub.again.text = sub.out.text)

\* an input with the same identifier twice, substituted, and substituted again
C13_Witness ==
    /\ sub.pc = "twice"
    /\ PlainSubstitution
    /\ sub.tool_input = << "#", "E", "1", "x", "#", "E", "1" >>
    /\ sub.out.text = << "1", "2", "x", "1", "2" >>
    /\ sub.again.text = sub.out.text

(***************************************************************************)
(* The Plan Parser.                                                        *)
(***************************************************************************)
\* the planner text the parser was given, and the steps of its plan lines in
\* textual order, each with the line's own fields
ParserText == Render(prs.lines, prs.splits, prs.breaks)

ExpectedSteps ==
    LET steps == ParsePlan(prs.lines)
    IN  [ i \in 1 .. Len(steps) |->
            [ steps[i] EXCEPT !.description = << steps[i].description >> ] ]

\* no line of the text holds "Plan:" twice
OnePlanPerLine(t) ==
    \A p, q \in 1 .. Len(t) :
        (p < q /\ t[p] = "Plan:" /\ t[q] = "Plan:")
        => \E n \in p + 1 .. q - 1 : t[n] = Newline

\* C14 as claimed: for every planner text of plan lines and prose, however
\* they are laid out, the parser returns exactly the steps of the plan lines,
\* in textual order, each with its line's description, evidence identifier,
\* tool name and tool input.
C14_ParsesEveryOccurrence ==
    prs.pc = "parsed" => prs.steps = ExpectedSteps

\* C14 amended: the same, for planner texts in which a line break separates
\* each "Plan:" from the next one.
C14_ParsesSeparatedOccurrences ==
    (prs.pc = "parsed" /\ OnePlanPerLine(ParserText))
    => prs.steps = ExpectedSteps

\* prose that begins like a plan line, then a plan line written on two lines
\* whose input references evidence, then a plan line on one line: two steps
C14_Witness ==
    /\ prs.pc = "parsed"
    /\ Len(prs.lines) = 3
    /\ prs.lines[1] = PlanProseLine
    /\ prs.lines[2] = PlanLine("calc_ref", 1)
    /\ prs.lines[3] = PlanLine("unknown", 2)
    /\ prs.splits[2] /\ ~ prs.splits[3]
    /\ OnePlanPerLine(ParserText)
    /\ Len(prs.steps) = 2
    /\ prs.steps[1].tool_input = << "x", "#E1" >>
    /\ prs.steps[2].evidence_id = "#E2"

(***************************************************************************)
(* The job store.                                                          *)
(***************************************************************************)
\* job id is finished (neither running nor submitted), its age
IsFinished(id) == jobs[id].status \notin {"running", "submitted"}
Age(id) == clock - jobs[id].created_at
IsExpired(id) == IsFinished(id) /\ Age(id) > jobs[id].expiry_seconds

\* no finished job of the store was created after job id
NewestFinished(id) ==
    /\ IsFinished(id)
    /\ \A o \in DOMAIN jobs :
          IsFinished(o) => jobs[o].created_at <= jobs[id].created_at

\* C16: cleanup_expired_jobs completes without raising, and when it has
\* completed the store holds no finished job older than its expiry_seconds
\* other than the finished job created last.
C16_CleanupRemovesExpired ==
    lastCall.op = "cleanup_expired_jobs"
    => /\ lastCall.raised = ""
       /\ \A id \in DOMAIN jobs : IsExpired(id) => NewestFinished(id)

C18_UpdateOfMissingJobRaises ==
    /\ [][(lastCall'.op = "update_status" /\ lastCall'.job_id \notin DOMAIN jobs)
          => /\ lastCall'.raised = "ValueError"
             /\ jobs' = jobs]_vars
    /\ [](lastCall.raised = "ValueError"
          => /\ lastCall.op = "update_status"
             /\ lastCall.job_id \notin DOMAIN jobs)

\* update_status raised for a job that is not in a store that holds another
\* job, which another call had updated before
C18_Witness ==
    /\ lastCall.op = "update_status"
    /\ lastCall.raised = "ValueError"
    /\ lastCall.job_id = "job2"
    /\ DOMAIN jobs = {"job1"}
    /\ jobs["job1"].status = "success"

\* C19: every job in the store has 600 <= expiry_seconds <= 86400; create_job
\* stores a requested value inside that range unchanged, a smaller one as 600
\* and a larger one as 86400; update_status changes no job's expiry_seconds.
C19_ExpiryClamped ==
    /\ [](\A id \in DOMAIN jobs :
            /\ jobs[id].expiry_seconds >= 600
            /\ jobs[id].expiry_seconds <= 86400)
    /\ [](lastCall.op = "create_job"
          => LET e == lastCall.requested
                 stored == jobs[lastCall.job_id].expiry_seconds
             IN  /\ (e >= 600 /\ e <= 86400) => stored = e
                 /\ e < 600 => stored = 600
                 /\ e > 86400 => stored = 86400)
    /\ [][lastCall'.op = "update_status"
          => \A id \in DOMAIN jobs :
                /\ id \in DOMAIN jobs'
                /\ jobs'[id].expiry_seconds = jobs[id].expiry_seconds]_vars

\* a job created with a request below the range, stored as 600, beside a job
\* whose in-range request was stored unchanged and which was updated since
C19_Witness ==
    /\ lastCall.op = "create_job"
    /\ lastCall.requested = 599
    /\ jobs[lastCall.job_id].expiry_seconds = 600
    /\ \E id \in DOMAIN jobs :
          /\ jobs[id].expiry_seconds = 3600
          /\ jobs[id].status = "failure"

\* C25: an update_status call that does not raise leaves the set of job ids
\* and every other job as they were; of the job it names it leaves job_id,
\* config_file, created_at and expiry_seconds as they were and sets status,
\* error and output_path to the arguments of the call (None for an error or
\* output_path the call leaves out, whatever was recorded before) and
\* updated_at to the time of the call.
C25_UpdateChangesOnlyItsFields ==
    [][(lastCall'.op = "update_status" /\ lastCall'.raised = "")
       => LET id == lastCall'.job_id
          IN  /\ DOMAIN jobs' = DOMAIN jobs
              /\ id \in DOMAIN jobs
              /\ \A o \in DOMAIN jobs \ {id} : jobs'[o] = jobs[o]
              /\ jobs'[id].job_id = jobs[id].job_id
              /\ jobs'[id].config_file = jobs[id].config_file
              /\ jobs'[id].created_at = jobs[id].created_at
              /\ jobs'[id].expiry_seconds = jobs[id].expiry_seconds
              /\ jobs'[id].updated_at = clock
              /\ \E u \in StatusUpdates :
                    /\ jobs'[id].status = u.status
                    /\ jobs'[id].error = u.error
                    /\ jobs'[id].output_path = u.output_path]_vars

\* a job that had failed with an error was updated to running by a later
\* call that names no error: the error is gone; the other job of the store
\* was updated before and time has passed since the jobs were created
C25_Witness ==
    /\ lastCall.op = "update_status"
    /\ lastCall.raised = ""
    /\ DOMAIN jobs = JobIds
    /\ LET id == lastCall.job_id
       IN  /\ jobs[id].status = "running"
           /\ jobs[id].error = None
           /\ jobs[id].updated_at > jobs[id].created_at
           /\ \E o \in JobIds \ {id} : jobs[o].error = "boom"

\* C22: under the recursion limit (max_iterations + 1) * 2, with the steps
\* counted as the comment of register.py lines 118-120 counts them, a run
\* whose plan has at most max_iterations steps always has the steps left that
\* its next node needs and is never stopped by the limit; a run makes tool
\* call number max_iterations + 1 never: when max_iterations calls are done
\* and a step is left the limit stops it, and it is stopped in no other
\* situation; a limit of 4 allows one tool call and stops the second.
C22_LimitFitsMaxIterations ==
    \A r \in Runs :
        LET k == config.max_iterations
            n == Len(StepsOf(r))
            running == pc[r] = "graph" /\ phase[r] \in {"PLANNING", "WORKING", "SOLVING"}
        IN  /\ (running /\ n <= k) => WithinLimit(r)
            /\ n <= k => raised[r] # "GraphRecursionError"
            /\ Len(calls[r]) + Len(inflight[r]) <= k
            /\ (running /\ phase[r] = "WORKING" /\ Len(calls[r]) = k)
               => ~ WithinLimit(r)
            /\ raised[r] = "GraphRecursionError"
               => /\ n > k
                  /\ Len(calls[r]) = k
                  /\ graphSteps[r] = recursion_limit(config) - 1
            /\ recursion_limit(config) = 4 => Len(calls[r]) <= 1

\* under a limit of 4 a run was stopped when it tried its second tool call,
\* the first made and answered
C22_Witness ==
    \E r \in Runs :
        /\ recursion_limit(config) = 4
        /\ raised[r] = "GraphRecursionError"
        /\ Len(calls[r]) = 1
        /\ Len(StepsOf(r)) >= 2
        /\ pc[r] = "returned"

\* the evidence identifiers of the steps of invocation r's plan are distinct
DistinctIds(r) ==
    \A i, j \in 1 .. Len(StepsOf(r)) :
        StepsOf(r)[i].evidence_id = StepsOf(r)[j].evidence_id => i = j

\* in this step of invocation r: the Evidence mapping keeps every entry it
\* has, a tool call that returns adds exactly one entry, and the Worker Phase
\* leaves task, plan_string and steps as they were
EvidenceGrows(r) ==
    /\ Started(r) /\ stateRef'[r] = stateRef[r]
       => /\ DOMAIN EvidenceOf(r) \subseteq DOMAIN EvidenceOf(r)'
          /\ \A x \in DOMAIN EvidenceOf(r) : EvidenceOf(r)'[x] = EvidenceOf(r)[x]
    /\ Len(calls'[r]) = Len(calls[r]) + 1
       => Cardinality(DOMAIN EvidenceOf(r)') = Cardinality(DOMAIN EvidenceOf(r)) + 1
    /\ Cardinality(DOMAIN EvidenceOf(r)') <= Cardinality(DOMAIN EvidenceOf(r)) + 1
    /\ phase[r] = "WORKING"
       => /\ St(r)'.task = St(r).task
          /\ St(r)'.plan_string = St(r).plan_string
          /\ St(r)'.steps = St(r).steps

\* C21 as claimed: during a run the Evidence mapping only grows: each Worker
\* step adds exactly one entry and no entry is removed or overwritten, also
\* when the plan names two steps by the same evidence identifier; the Worker
\* Phase leaves task, plan_string and steps unchanged.
C21_EvidenceOnlyGrows ==
    [][\A r \in Runs : EvidenceGrows(r)]_vars

\* C21 amended: the same for every run whose plan names its steps by
\* distinct evidence identifiers; and task, plan_string and steps are left
\* unchanged by the Worker Phase of every run.
C21_EvidenceOnlyGrowsDistinct ==
    [][\A r \in Runs :
          /\ DistinctIds(r) => EvidenceGrows(r)
          /\ phase[r] = "WORKING"
             => /\ St(r)'.task = St(r).task
                /\ St(r)'.plan_string = St(r).plan_string
                /\ St(r)'.steps = St(r).steps]_vars

\* a run whose plan names its two steps #E2 and #E1 made both tool calls:
\* two entries, the one written first still as its tool call returned it
C21_Witness ==
    \E r \in Runs :
        /\ Len(StepsOf(r)) = 2
        /\ StepsOf(r)[1].evidence_id = EvId(2)
        /\ StepsOf(r)[2].evidence_id = EvId(1)
        /\ Len(calls[r]) = 2
        /\ Cardinality(DOMAIN EvidenceOf(r)) = 2
        /\ calls[r][1].output # calls[r][2].output
        /\ EvidenceOf(r)[EvId(2)] = calls[r][1].output
        /\ phase[r] = "DONE"

\* the ids of the dataset whose rows reach the items of a structured input
LoadedIds == { ds.rows[i].id : i \in { j \in 1 .. Len(ds.rows) : ds.rows[j].question # "" } }

\* the place of the item of an id among the items
PlaceOf(id) == CHOOSE p \in 1 .. Len(ds.items) : ds.items[p].id = id

\* the scores the evaluators gave the item at place p, added up; every
\* evaluator scored it, so the greater sum is the greater average
ScoreSumAt(p) == SumOf([ e \in 1 .. Len(ds.results) |-> ds.results[e][p].score ])

\* C23: of a structured input with reps > 1, generate_ground_truth returns
\* exactly one item per id of the dataset that the evaluators scored; the item
\* has that id as the dataset has it (also an id that contains "_rep"), no
\* output, no trajectories, and as expected output the output the workflow
\* generated in a repetition of that id that no other repetition of the id
\* beats in score averaged over the evaluators; with reps = 1 it returns every
\* item in place with its id, input and expected output kept and its output
\* and trajectories cleared.
C23_GroundTruthOfBestRep ==
    (ds.pc \in {"generated", "published"} /\ ds.structured)
    => /\ ~ ds.truth.none
       /\ \A t \in 1 .. Len(ds.truth.items) :
             /\ ds.truth.items[t].output_obj = NoObj
             /\ ds.truth.items[t].trajectory = << >>
             /\ ds.truth.items[t].expected_trajectory = << >>
       /\ IF ds.reps > 1
          THEN /\ \A t \in 1 .. Len(ds.truth.items) : ds.truth.items[t].id \in LoadedIds
               /\ \A x \in LoadedIds :
                     /\ Cardinality({ t \in 1 .. Len(ds.truth.items) :
                                        ds.truth.items[t].id = x }) = 1
                     /\ \E t \in 1 .. Len(ds.truth.items), k \in 0 .. ds.reps - 1 :
                           LET p == PlaceOf(RepId(x, k))
                           IN  /\ ds.truth.items[t].id = x
                               /\ ds.truth.items[t].input_obj = ds.items[p].input_obj
                               /\ ds.truth.items[t].expected_output_obj =
                                     << "answer", "to" >> \o x \o << "_rep", ToString(k) >>
                               /\ ds.items[p].output_obj =
                                     ds.truth.items[t].expected_output_obj
                               /\ \A o \in 0 .. ds.reps - 1 :
                                     ScoreSumAt(PlaceOf(RepId(x, o))) <= ScoreSumAt(p)
          ELSE /\ Len(ds.truth.items) = Len(ds.items)
               /\ { ds.truth.items[t].id : t \in 1 .. Len(ds.truth.items) } = LoadedIds
               /\ \A p \in 1 .. Len(ds.items) :
                     /\ ds.truth.items[p].id = ds.items[p].id
                     /\ ds.truth.items[p].input_obj = ds.items[p].input_obj
                     /\ ds.truth.items[p].expected_output_obj = << "gold" >> \o ds.items[p].id
                     /\ ds.items[p].expected_output_obj =
                           ds.truth.items[p].expected_output_obj

\* the ground truth of a dataset of the ids "a" and "a_rep0", run twice: two
\* items; that of "a_rep0" holds the answer of its second repetition, which
\* the evaluators scored higher than the first, that of "a" the answer of
\* its first
C23_Witness ==
    /\ ds.pc = "generated"
    /\ ds.structured
    /\ ds.reps = 2
    /\ LoadedIds = {IdA, IdB}
    /\ Len(ds.truth.items) = 2
    /\ ScoreSumAt(PlaceOf(RepId(IdB, 1))) > ScoreSumAt(PlaceOf(RepId(IdB, 0)))
    /\ ScoreSumAt(PlaceOf(RepId(IdA, 0))) > ScoreSumAt(PlaceOf(RepId(IdA, 1)))
    /\ \E t \in 1 .. 2 :
          /\ ds.truth.items[t].id = IdB
          /\ ds.truth.items[t].expected_output_obj = << "answer", "to" >> \o RepId(IdB, 1)
    /\ \E t \in 1 .. 2 :
          /\ ds.truth.items[t].id = IdA
          /\ ds.truth.items[t].expected_output_obj = << "answer", "to" >> \o RepId(IdA, 0)

\* C24: publish_ground_truth returns None when the input is unstructured; when
\* it is structured it returns a JSON array of one object per item, of the
\* item's id, its question and its answer.
C24_PublishedOnlyWhenStructured ==
    ds.pc = "published"
    => IF ds.structured
       THEN /\ ~ ds.published.none
            /\ Len(ds.published.items) = Len(ds.items)
            /\ \A p \in 1 .. Len(ds.items) :
                  ds.published.items[p] =
                     [ id |-> ds.items[p].id, question |-> ds.items[p].input_obj,
                       answer |-> ds.items[p].expected_output_obj ]
       ELSE ds.published.none

====
